---- MODULE Spec2Model ----
(***************************************************************************)
(* Model of the database-user-operator reconciliation engine: one Database *)
(* object reconciled against a relational engine (user, database, grants)  *)
(* and AWS Secrets Manager (one secret per region and name).  One action   *)
(* per remote call of DatabaseReconciler.Reconcile / reconcileDatabase /   *)
(* storeCredentialsInAWS, in source order.                                 *)
(***************************************************************************)
EXTENDS Integers, Sequences, FiniteSets, TLC

(***************************************************************************)
(* Bounds of the model.                                                    *)
(***************************************************************************)
\* passwords the operator may generate in one behaviour
MaxPw == 2
\* highest metadata.generation a spec edit may reach
MaxGen == 2
\* remote calls that fail, and passes that are abandoned, in one behaviour
MaxFail == 1

(***************************************************************************)
(* Values.                                                                 *)
(***************************************************************************)
Regions == {"us-east-1", "eu-west-1"}
\* spec region: "" leaves the region to the AWS SDK default resolution
SpecRegions == {""} \cup Regions
\* the region the SDK resolves from the environment when none is given
DefaultRegion == "us-east-1"

DatabaseName == "app"
Engine == "postgres"
CustomSecretName == "/custom/app"
SpecSecretNames == {"", CustomSecretName}

ManagedByKey == "ManagedBy"
ManagedByValue == "database-user-operator"

\* a password is a string: the model keeps its identity and its length
EmptyPw == [id |-> -1, len |-> 0]
\* a password set before the behaviour starts (by a person or an earlier release)
PriorPw == [id |-> 0, len |-> 20]

currentSecretFormatVersion == "v2"

NoTags == [k \in {} |-> ""]
\* the description CreateSecret gives a secret whose spec names none
DefaultDescription == "Database credentials for " \o DatabaseName
NoSecret == [exists |-> FALSE, DB_PASSWORD |-> EmptyPw, password |-> EmptyPw, tags |-> NoTags,
             description |-> "", scheduled |-> FALSE, urlKey |-> ""]

\* an error message: the text the controller wraps the cause in, the flags
\* the unrecoverable message prints, the error code of the wrapped cause and
\* the "RequestID: ..." an AWS error carries ("" when there is none)
NoErr == [kind |-> "", db |-> FALSE, user |-> FALSE, cause |-> "", requestId |-> ""]
Err(kind) == [kind |-> kind, db |-> FALSE, user |-> FALSE, cause |-> "", requestId |-> ""]
\* an error that wraps an error of Secrets Manager or of the API server; the
\* step that returns it adds the RequestID
CausedErr(kind, code) == [Err(kind) EXCEPT !.cause = code]
\* request ids of the AWS errors of one behaviour
RequestIds == {"1f3a-0c", "9c2e-7b"}
\* a call to Secrets Manager that fails is refused for lack of permission
AccessDenied == "AccessDeniedException"
\* GetSecretValue on a secret that is not there
ResourceNotFound == "ResourceNotFoundException"
\* CreateSecret on a name that is taken
ResourceExists == "ResourceExistsException"
\* a call on a secret that is scheduled for deletion
MarkedForDeletion == "InvalidRequestException: marked for deletion"
AwsCodes == {AccessDenied, ResourceNotFound, ResourceExists, MarkedForDeletion}
\* the error of a GetSecret that failed: refused (ok is FALSE), or the secret
\* is not there
GetSecretErr(kind, ok) == CausedErr(kind, IF ok THEN ResourceNotFound ELSE AccessDenied)
\* client.GetSecretValue answers for a secret that is there and is not
\* scheduled for deletion
Readable(sec) == sec.exists /\ ~sec.scheduled
\* the error of a GetSecret that failed on sec
GetSecretErrOn(kind, ok, sec) ==
    IF ok /\ sec.exists /\ sec.scheduled THEN CausedErr(kind, MarkedForDeletion)
    ELSE GetSecretErr(kind, ok)
\* the error of reconcileDatabase for a user or database without its secret;
\* the message goes on to name which of database and user exist
UnrecoverableKind ==
    "database and/or user exist but secret is missing - cannot recover password"
ReadyMessage == Err("Database, user, and secret are ready")

VARIABLES
    generation,   \* metadata.generation of the Database object
    spec,         \* db.Spec (the fields the engine reads)
    status,       \* db.Status as persisted in the API server
    finalizer,    \* the object carries DatabaseFinalizer
    deletionTimestamp, \* metadata.deletionTimestamp is set: the object is being deleted
    db,           \* db.Status of the in-memory object of the running pass
    pc,           \* position of the running pass
    loc,          \* local variables of the running pass
    calls,        \* remote calls issued by the running (or last) pass, in order
    result,       \* what the last pass returned to the controller runtime
    userExists,   \* engine: the role exists
    userPw,       \* engine: the role's password
    dbExists,     \* engine: the database exists
    granted,      \* engine: the privileges on the database granted to the role
    store,        \* secrets manager: store[region][name]
    pwCount,      \* passwords generated so far
    failures      \* remote calls that failed and passes abandoned so far

vars == <<generation, spec, status, finalizer, deletionTimestamp, db, pc, loc, calls,
          result, userExists, userPw, dbExists, granted, store, pwCount, failures>>

world == <<userExists, userPw, dbExists, granted, store>>
object == <<generation, spec, status, finalizer, deletionTimestamp>>

(***************************************************************************)
(* Pure helpers of the controller.                                         *)
(***************************************************************************)
\* getRegion: spec.awsSecretsManager.region, else
\* spec.connectionStringAWSSecretRef.region, else "" (SDK default)
getRegion(s) ==
    IF s.region # "" THEN s.region
    ELSE IF s.awsRefRegion # "" THEN s.awsRefRegion
    ELSE ""

\* getSecretNameOrDefault
getSecretNameOrDefault(s) ==
    IF s.secretName # "" THEN s.secretName
    ELSE "rds/" \o Engine \o "/" \o DatabaseName

SecretNames == {getSecretNameOrDefault([secretName |-> n]) : n \in SpecSecretNames}

\* secrets.ValidateRegion: the empty region is left to the SDK
ValidateRegion(region) == region = "" \/ region \in Regions

\* NewAWSSecretsManagerClient + GetRegion: the region the client is bound to
ClientRegion(region) == IF region # "" THEN region ELSE DefaultRegion

\* needsReconciliation without the comparison of the generations
needsReconciliationNoGeneration(st, gen) ==
    \/ ~st.userCreated \/ ~st.databaseCreated \/ ~st.secretCreated
    \/ st.secretFormatVersion # currentSecretFormatVersion

\* needsReconciliation
needsReconciliation(st, gen) ==
    \/ ~st.userCreated \/ ~st.databaseCreated \/ ~st.secretCreated
    \/ st.observedGeneration # gen
    \/ st.secretFormatVersion # currentSecretFormatVersion

\* desiredTags of reconcileDatabase / storeCredentialsInAWS
DesiredTags(s) ==
    [k \in {ManagedByKey} \cup DOMAIN s.tags |->
        IF k \in DOMAIN s.tags THEN s.tags[k] ELSE ManagedByValue]

\* GeneratePassword(length): length of the returned string
GeneratePasswordLen(length) ==
    LET n == IF length < 16 THEN 32 ELSE length
        encoded == 4 * ((n + 2) \div 3)
    IN  IF encoded > n THEN n ELSE encoded

\* the engines of the DatabaseEngine enum, as the characters of their names
Engines == {"postgres", "postgresql", "mysql", "mariadb"}
EngineChars ==
    [postgres |-> <<"p", "o", "s", "t", "g", "r", "e", "s">>,
     postgresql |-> <<"p", "o", "s", "t", "g", "r", "e", "s", "q", "l">>,
     mysql |-> <<"m", "y", "s", "q", "l">>,
     mariadb |-> <<"m", "a", "r", "i", "a", "d", "b">>]

\* strings.ToUpper and strings.ToLower on the letters of the engine names
UpperOf ==
    [a |-> "A", b |-> "B", d |-> "D", e |-> "E", g |-> "G", i |-> "I", l |-> "L",
     m |-> "M", o |-> "O", p |-> "P", q |-> "Q", r |-> "R", s |-> "S", t |-> "T",
     y |-> "Y"]
ToUpper(str) == [i \in DOMAIN str |-> IF str[i] \in DOMAIN UpperOf THEN UpperOf[str[i]] ELSE str[i]]
ToLower(str) ==
    [i \in DOMAIN str |->
        IF \E c \in DOMAIN UpperOf : UpperOf[c] = str[i]
        THEN CHOOSE c \in DOMAIN UpperOf : UpperOf[c] = str[i]
        ELSE str[i]]
HasPrefix(str, prefix) ==
    Len(str) >= Len(prefix) /\ SubSeq(str, 1, Len(prefix)) = prefix

\* urlFieldName of toJSONDefault: the key of the connection URL
urlFieldName(engine) ==
    IF HasPrefix(ToLower(EngineChars[engine]), EngineChars["postgres"])
    THEN ToUpper(EngineChars["postgres"]) \o <<"_", "U", "R", "L">>
    ELSE ToUpper(EngineChars[engine]) \o <<"_", "U", "R", "L">>

\* the characters of a key written as one string
RECURSIVE Joined(_)
Joined(chars) == IF chars = <<>> THEN "" ELSE Head(chars) \o Joined(Tail(chars))

\* the key of each engine, as the string the JSON object holds
urlFieldNames == [engine \in Engines |-> Joined(urlFieldName(engine))]

\* the DatabaseSecret storeCredentialsInAWS builds for a password
SecretValue(pw, engine) ==
    [DBHost |-> "host", DBPort |-> "5432", DBName |-> DatabaseName, DBUsername |-> "app",
     DBPassword |-> pw, DatabaseURL |-> "url", Engine |-> engine]

\* DatabaseSecret.toJSONDefault: the payload written for a secret value
toJSONDefaultOf(s) ==
    [DB_PASSWORD |-> s.DBPassword, password |-> EmptyPw,
     urlKey |-> IF s.DatabaseURL # "" /\ s.Engine # ""
                THEN urlFieldNames[s.Engine] ELSE ""]

\* the payload storeCredentialsInAWS writes for a password
toJSONDefault(pw) == toJSONDefaultOf(SecretValue(pw, Engine))

\* DeleteSecret that always leaves the recovery window
DeletedSecretRecoveryWindow(sec, forceDelete) == [sec EXCEPT !.scheduled = TRUE]

\* what AWSSecretsManagerClient.DeleteSecret makes of a secret: purged with
\* forceDelete, else scheduled for deletion after the recovery window
DeletedSecret(sec, forceDelete) ==
    IF forceDelete THEN NoSecret ELSE [sec EXCEPT !.scheduled = TRUE]

\* the test that takes every password for a usable one
IsEmptyNever(pw) == FALSE

\* "if password == \"\"" after each GetSecret of reconcileDatabase
IsEmpty(pw) == pw = EmptyPw

\* GetSecret without the fallback to the legacy key
GetSecretPasswordNoLegacy(sec) == sec.DB_PASSWORD

\* AWSSecretsManagerClient.GetSecret: DB_PASSWORD, else the legacy key
GetSecretPassword(sec) ==
    IF sec.DB_PASSWORD # EmptyPw THEN sec.DB_PASSWORD ELSE sec.password


\* getTagsToRemove: the keys of current that desired does not have
getTagsToRemove(current, desired) == DOMAIN current \ DOMAIN desired

\* getTagsToAdd: the entries of desired that current lacks or holds with
\* another value
getTagsToAdd(current, desired) ==
    [k \in {x \in DOMAIN desired : x \notin DOMAIN current \/ current[x] # desired[x]}
        |-> desired[k]]

\* tags of a secret after the "always update tags" block: GetSecretTags,
\* UntagSecret of the keys not desired, TagSecret of the desired set.
\* o is the outcome of the remote calls: "ok", "getTagsFails" (tolerated:
\* continue with an empty set), "untagFails", "tagFails".
\* TagsToRemove that never finds a key to remove
TagsToRemoveNone(cur, desired, o) == {}

TagsToRemove(cur, desired, o) ==
    IF o = "getTagsFails" THEN {} ELSE DOMAIN cur \ DOMAIN desired

TagsAfterUntag(cur, desired, o) ==
    IF o = "untagFails" THEN cur
    ELSE [k \in DOMAIN cur \ TagsToRemove(cur, desired, o) |-> cur[k]]

TagsAfterSync(cur, desired, o) ==
    LET t == TagsAfterUntag(cur, desired, o)
    IN  IF o \in {"untagFails", "tagFails"} THEN t
        ELSE [k \in DOMAIN t \cup DOMAIN desired |->
                 IF k \in DOMAIN desired THEN desired[k] ELSE t[k]]

\* the calls the block issues
TagSyncCalls(cur, desired, o) ==
    <<[op |-> "GetSecretTags", ok |-> o # "getTagsFails"]>>
    \o (IF TagsToRemove(cur, desired, o) # {}
        THEN <<[op |-> "UntagSecret", ok |-> o # "untagFails"]>> ELSE <<>>)
    \o (IF o = "untagFails" THEN <<>>
        ELSE <<[op |-> "TagSecret", ok |-> o # "tagFails"]>>)

\* the error the block returns, NoErr when it succeeds
TagSyncErr(cur, desired, o) ==
    IF o = "untagFails" THEN CausedErr("failed to remove secret tags", AccessDenied)
    ELSE IF o = "tagFails" THEN CausedErr("failed to update secret tags", AccessDenied)
    ELSE NoErr

\* the outcomes the block can have on a secret with tags cur: UntagSecret is
\* called, and so can fail, only when there is a key to remove
TagOutcomes(cur, desired) ==
    {"ok", "getTagsFails", "tagFails"}
    \cup (IF DOMAIN cur \ DOMAIN desired # {} THEN {"untagFails"} ELSE {})

(***************************************************************************)
(* Initial states.                                                         *)
(***************************************************************************)
SpecTagMaps == {[k \in {"team"} |-> "x"]}

\* spec.retainOnDelete is a *bool: "unset" is nil; secretRef and awsSecretRef
\* say whether connectionStringSecretRef and connectionStringAWSSecretRef
\* are set
Specs == [region : SpecRegions, awsRefRegion : {""}, secretName : SpecSecretNames,
          tags : SpecTagMaps, retainOnDelete : {"unset"},
          secretRef : {TRUE}, awsSecretRef : {FALSE}, privileges : {{}},
          description : {""}]

\* tags a secret found at start may carry
PriorTagMaps == {NoTags, [k \in {"team", "owner"} |-> "y"]}

EmptyStore == [r \in Regions |-> [n \in SecretNames |-> NoSecret]]

ZeroStatus == [phase |-> "", message |-> NoErr, observedGeneration |-> 0,
               userCreated |-> FALSE, databaseCreated |-> FALSE, secretCreated |-> FALSE,
               actualSecretName |-> "", secretARN |-> "", secretFormatVersion |-> "",
               secretRegion |-> ""]

NoLoc == [password |-> EmptyPw, userExists |-> FALSE, dbExists |-> FALSE,
          secretExists |-> FALSE, needsSecretUpdate |-> FALSE, secretName |-> "",
          region |-> "", regionChanged |-> FALSE, exists |-> FALSE,
          createSecret |-> FALSE, secretARN |-> "", err |-> NoErr,
          \* the engine connections the pass holds open
          open |-> {},
          \* history of the pass, read by the properties only
          branch |-> "", generated |-> FALSE, readPw |-> EmptyPw,
          tagsBefore |-> NoTags, events |-> <<>>,
          startStore |-> EmptyStore, startUser |-> FALSE, startUserPw |-> EmptyPw,
          startDb |-> FALSE, startGranted |-> {}, startStatus |-> ZeroStatus]

\* a new Database object; user, database and secret may already exist
InitFresh ==
    /\ generation = 1
    /\ spec \in Specs
    /\ status = ZeroStatus
    /\ finalizer = FALSE
    /\ userExists \in BOOLEAN
    /\ userPw = IF userExists THEN PriorPw ELSE EmptyPw
    /\ dbExists \in BOOLEAN
    /\ granted = {}
    /\ \E present \in BOOLEAN, t \in PriorTagMaps :
          /\ (~present => t = NoTags)
          /\ store = IF present
                     THEN [EmptyStore EXCEPT
                             ![ClientRegion(getRegion(spec))][getSecretNameOrDefault(spec)] =
                                 [exists |-> TRUE, tags |-> t,
                                  description |-> DefaultDescription,
                                  scheduled |-> FALSE]
                                 @@ toJSONDefault(PriorPw)]
                     ELSE EmptyStore

\* an object reconciled by an earlier release that wrote format v1
InitLegacy ==
    /\ generation = 1
    /\ spec \in Specs
    /\ \E recorded \in BOOLEAN :
        status = [ZeroStatus EXCEPT
                    !.phase = "Ready", !.message = ReadyMessage,
                    !.observedGeneration = 1,
                    !.userCreated = TRUE, !.databaseCreated = TRUE, !.secretCreated = TRUE,
                    !.actualSecretName = getSecretNameOrDefault(spec),
                    !.secretARN = "arn", !.secretFormatVersion = "v1",
                    !.secretRegion = IF recorded THEN ClientRegion(getRegion(spec)) ELSE ""]
    /\ finalizer = TRUE
    /\ userExists = TRUE
    /\ userPw = PriorPw
    /\ dbExists = TRUE
    /\ granted = {"ALL"}
    /\ store = [EmptyStore EXCEPT
                  ![ClientRegion(getRegion(spec))][getSecretNameOrDefault(spec)] =
                      [exists |-> TRUE, DB_PASSWORD |-> EmptyPw, password |-> PriorPw,
                       tags |-> NoTags, description |-> DefaultDescription,
                       scheduled |-> FALSE, urlKey |-> ""]]

Init ==
    /\ (InitFresh \/ InitLegacy)
    /\ deletionTimestamp = FALSE
    /\ db = status
    /\ pc = "idle"
    /\ loc = NoLoc
    /\ calls = <<>>
    /\ result = "none"
    /\ pwCount = 0
    /\ failures = 0


(***************************************************************************)
(* The pass: Reconcile, reconcileDatabase, storeCredentialsInAWS.          *)
(***************************************************************************)
Call(op, ok) == calls' = Append(calls, [op |-> op, ok |-> ok])

\* the outcomes a remote call can have: a failure, of whatever kind, is one
\* more failure of the behaviour
Oks == IF failures < MaxFail THEN BOOLEAN ELSE {TRUE}
Outcomes(S) == IF failures < MaxFail THEN S ELSE {"ok"}
Inject(ok) == failures' = IF ok THEN failures ELSE failures + 1

\* a function that returns without closing its engine client
DeferredNone(l) == l

\* "defer func() { ... dbClient.Close() ... }()" of reconcileDatabase and
\* reconcileDelete: the function returns and the admin connection is closed
Deferred(l) == [l EXCEPT !.open = {}]

\* a step returns err: reconcileDatabase ends and Reconcile writes the status
Return(l, err) ==
    /\ \E id \in (IF err.cause \in AwsCodes THEN RequestIds ELSE {""}) :
          loc' = [Deferred(l) EXCEPT !.err = [err EXCEPT !.requestId = id]]
    /\ pc' = "finish"

\* the controller runtime starts a pass: on a watch event, or because the
\* last pass returned an error, Requeue or RequeueAfter; after an empty
\* result with a nil error it waits for the next event
Scheduled == pc = "idle" \/ (pc = "done" /\ result # "stop")

\* reconcileDelete's retainOnDelete with the default of true
retainOnDeleteDefaultFalse(s) == s.retainOnDelete = "true"

\* reconcileDelete: "retainOnDelete := true", overridden by a non-nil
\* spec.retainOnDelete
retainOnDelete(s) == s.retainOnDelete # "false"

\* ContainsFinalizer that finds the finalizer on every object
ContainsFinalizerAlways(f) == TRUE

\* controllerutil.ContainsFinalizer(db, DatabaseFinalizer)
ContainsFinalizer(f) == f

\* Reconcile up to the first remote call: an object being deleted goes to
\* reconcileDelete; an object without the finalizer gets it and is requeued;
\* needsReconciliation decides whether the pass short-circuits
Reconcile ==
    /\ Scheduled
    /\ db' = status
    /\ LET l0 == [NoLoc EXCEPT
                    !.events = IF status.observedGeneration = 0
                               THEN <<[type |-> "Normal", reason |-> "Created"]>>
                               ELSE <<>>,
                    !.startStore = store,
                    !.startUser = userExists,
                    !.startUserPw = userPw,
                    !.startDb = dbExists,
                    !.startGranted = granted,
                    !.startStatus = status]
       IN  IF deletionTimestamp
           THEN /\ calls' = <<>>
                /\ UNCHANGED <<finalizer, failures>>
                /\ IF ~finalizer
                   THEN /\ loc' = [l0 EXCEPT !.branch = "gone"]
                        /\ result' = "stop"
                        /\ pc' = "done"
                   ELSE /\ loc' = [l0 EXCEPT !.branch = "delete"]
                        /\ result' = result
                        /\ pc' = IF retainOnDelete(spec) THEN "removeFinalizer"
                                 ELSE "delGetConnectionString"
           ELSE IF ~ContainsFinalizer(finalizer)
           THEN \E ok \in Oks :
                  /\ Inject(ok)
                  /\ finalizer' = ok
                  /\ calls' = <<[op |-> "Update", ok |-> ok]>>
                  /\ result' = IF ok THEN "requeue" ELSE "error"
                  /\ loc' = [l0 EXCEPT !.branch = "finalizer"]
                  /\ pc' = "done"
           ELSE /\ calls' = <<>>
                /\ UNCHANGED <<finalizer, result, failures>>
                /\ IF ~needsReconciliation(status, generation)
                   THEN /\ loc' = [l0 EXCEPT !.branch = "short"]
                        /\ pc' = "finish"
                   ELSE /\ loc' = [l0 EXCEPT !.needsSecretUpdate =
                                     status.secretFormatVersion # currentSecretFormatVersion]
                        /\ pc' = "getConnectionString"
    /\ UNCHANGED <<generation, spec, status, deletionTimestamp, world, pwCount>>

\* validateConnectionSource: exactly one of the two references is set
validateConnectionSource(s) ==
    IF s.secretRef /\ s.awsSecretRef
    THEN Err("both ConnectionStringSecretRef and ConnectionStringAWSSecretRef are specified, only one is allowed")
    ELSE IF ~s.secretRef /\ ~s.awsSecretRef
    THEN Err("neither ConnectionStringSecretRef nor ConnectionStringAWSSecretRef is specified")
    ELSE NoErr

\* r.getConnectionString: the validation, then the Kubernetes secret or the
\* secret of Secrets Manager is read
GetConnectionString ==
    /\ pc = "getConnectionString"
    /\ IF validateConnectionSource(spec) # NoErr
       THEN /\ Return(loc, validateConnectionSource(spec))
            /\ UNCHANGED <<calls, failures>>
       ELSE \E ok \in Oks :
              /\ Inject(ok)
              /\ Call("GetConnectionString", ok)
              /\ IF ok THEN /\ pc' = "newClient"
                            /\ loc' = loc
                 ELSE Return(loc, CausedErr("failed to get connection string",
                                            IF spec.secretRef THEN "NotFound"
                                            ELSE AccessDenied))
    /\ UNCHANGED <<object, db, result, world, pwCount>>

\* the format-migration test of reconcileDatabase
IsFormatMigration(l, st) ==
    l.needsSecretUpdate /\ st.userCreated /\ st.databaseCreated /\ st.secretCreated

\* outcomes of database.NewClient: the engine name is not one of the four,
\* the connection string does not parse, or the ping fails
NewClientOutcomes == {"ok", "unsupported", "unparsable", "pingFailed"}

\* a constructor that returns on a failed ping without closing
ConnectedKeepsOnFailedPing(o) == IF o \in {"ok", "pingFailed"} THEN {"admin"} ELSE {}

\* the connection NewPostgresClient / NewMySQLClient leaves open: sql.Open
\* is reached with a supported engine and a parsed connection string, and
\* a failed Ping closes what sql.Open opened
Connected(o) == IF o = "ok" THEN {"admin"} ELSE {}

\* database.NewClient, then the choice between format migration and the
\* existence checks
NewClient ==
    /\ pc = "newClient"
    /\ \E o \in Outcomes(NewClientOutcomes) :
          LET l1 == [loc EXCEPT !.open = @ \cup Connected(o)]
          IN  /\ Inject(o = "ok")
              /\ Call("NewClient", o = "ok")
              /\ IF o = "ok"
                 THEN /\ pc' = IF IsFormatMigration(loc, db) THEN "migrationGetSecret"
                               ELSE "userExists"
                      /\ loc' = l1
                 ELSE /\ loc' = [l1 EXCEPT !.err = Err("database client")]
                      /\ pc' = "finish"
    /\ UNCHANGED <<object, db, result, world, pwCount>>

\* format migration: GetSecret(db.Status.ActualSecretName) in the spec's region
MigrationGetSecret ==
    /\ pc = "migrationGetSecret"
    /\ IF ~ValidateRegion(getRegion(spec))
       THEN /\ Return(loc, Err("invalid AWS region for password retrieval"))
            /\ UNCHANGED <<calls, failures>>
       ELSE
       LET sec == store[ClientRegion(getRegion(spec))][db.actualSecretName]
       IN  \E ok \in Oks :
             /\ Inject(ok)
             /\ Call("GetSecret", ok /\ Readable(sec))
             /\ IF ~(ok /\ Readable(sec))
                THEN Return(loc, GetSecretErrOn("failed to retrieve existing secret for migration", ok, sec))
                ELSE IF IsEmpty(GetSecretPassword(sec))
                THEN Return(loc, Err("could not extract password from existing secret for migration"))
                ELSE /\ loc' = [loc EXCEPT !.password = GetSecretPassword(sec),
                                           !.readPw = GetSecretPassword(sec),
                                           !.branch = "migrate"]
                     /\ pc' = "grant"
    /\ UNCHANGED <<object, db, result, world, pwCount>>

\* dbClient.UserExists
UserExists ==
    /\ pc = "userExists"
    /\ \E ok \in Oks :
          /\ Inject(ok)
          /\ Call("UserExists", ok)
          /\ IF ok THEN /\ loc' = [loc EXCEPT !.userExists = userExists]
                        /\ pc' = "databaseExists"
             ELSE Return(loc, Err("failed to check if user exists"))
    /\ UNCHANGED <<object, db, result, world, pwCount>>

\* dbClient.DatabaseExists
DatabaseExists ==
    /\ pc = "databaseExists"
    /\ \E ok \in Oks :
          /\ Inject(ok)
          /\ Call("DatabaseExists", ok)
          /\ IF ok THEN /\ loc' = [loc EXCEPT !.dbExists = dbExists]
                        /\ pc' = "secretExists"
             ELSE Return(loc, Err("failed to check if database exists"))
    /\ UNCHANGED <<object, db, result, world, pwCount>>

\* Branch with the missing-secret case taken only when database and user
\* both exist
BranchBothNeeded(dbE, userE, secretE) ==
    IF dbE /\ userE /\ secretE THEN "verify"
    ELSE IF (dbE /\ userE) /\ ~secretE THEN "missingSecret"
    ELSE "create"

\* Branch without the all-exist case, which then falls to the final else
BranchNoVerify(dbE, userE, secretE) ==
    IF (dbE \/ userE) /\ ~secretE THEN "missingSecret"
    ELSE "create"

\* the decision logic of reconcileDatabase on the three observed booleans
Branch(dbE, userE, secretE) ==
    IF dbE /\ userE /\ secretE THEN "verify"
    ELSE IF (dbE \/ userE) /\ ~secretE THEN "missingSecret"
    ELSE "create"

\* RegionChangedResolved with the comparison of the regions inverted
RegionChangedSame(st, region) ==
    st.secretRegion # "" /\ st.secretRegion = region

\* the region-change test of reconcileDatabase (on the resolved region)
RegionChangedResolved(st, region) ==
    st.secretRegion # "" /\ st.secretRegion # region

\* awsClient.SecretExists in the resolved region, then the decision logic
SecretExists ==
    /\ pc = "secretExists"
    /\ IF ~ValidateRegion(getRegion(spec))
       THEN /\ Return(loc, Err("invalid AWS region"))
            /\ UNCHANGED <<calls, failures>>
       ELSE
       LET region == ClientRegion(getRegion(spec))
           secretName == getSecretNameOrDefault(spec)
           l1 == [loc EXCEPT !.region = region, !.secretName = secretName,
                             !.secretExists = store[region][secretName].exists]
           b == Branch(l1.dbExists, l1.userExists, l1.secretExists)
       IN  \E ok \in Oks :
             /\ Inject(ok)
             /\ Call("SecretExists", ok)
             /\ IF ~ok THEN Return(loc, CausedErr("failed to check if secret exists", AccessDenied))
                ELSE IF b = "verify"
                THEN /\ loc' = [l1 EXCEPT !.branch = "verify"]
                     /\ pc' = "verifyGetSecret"
                ELSE IF b = "create"
                THEN /\ loc' = [l1 EXCEPT !.branch = "create"]
                     /\ pc' = "createUser"
                ELSE IF RegionChangedResolved(db, region) /\ db.actualSecretName # ""
                THEN /\ loc' = [l1 EXCEPT !.branch = "regionMigrate"]
                     /\ pc' = "oldRegionSecretExists"
                ELSE Return([l1 EXCEPT !.branch = "unrecoverable"],
                            [Err(UnrecoverableKind) EXCEPT
                                !.db = l1.dbExists, !.user = l1.userExists])
    /\ UNCHANGED <<object, db, result, world, pwCount>>


\* verify-and-sync: GetSecret(secretName) for the password
VerifyGetSecret ==
    /\ pc = "verifyGetSecret"
    /\ LET sec == store[loc.region][loc.secretName]
       IN  \E ok \in Oks :
             /\ Inject(ok)
             /\ Call("GetSecret", ok /\ Readable(sec))
             /\ IF ~(ok /\ Readable(sec))
                THEN Return(loc, GetSecretErrOn("failed to retrieve existing secret", ok, sec))
                ELSE IF IsEmpty(GetSecretPassword(sec))
                THEN Return(loc, Err("could not extract password from existing secret"))
                ELSE /\ loc' = [loc EXCEPT !.password = GetSecretPassword(sec),
                                           !.readPw = GetSecretPassword(sec)]
                     /\ pc' = "verifySyncTags"
    /\ UNCHANGED <<object, db, result, world, pwCount>>

\* the "always update tags" block on the secret at (region, name)
SyncTagsOutcomes(region, name) ==
    TagOutcomes(store[region][name].tags, DesiredTags(spec))

SyncTagsCalls(region, name, o) ==
    TagSyncCalls(store[region][name].tags, DesiredTags(spec), o)

SyncTagsStore(region, name, o) ==
    [store EXCEPT ![region][name].tags =
        TagsAfterSync(store[region][name].tags, DesiredTags(spec), o)]

\* history: the tags the block found on the secret
TagsSeen(l) == [l EXCEPT !.tagsBefore = store[l.region][l.secretName].tags]

\* verify-and-sync: tags, then the created flags
VerifySyncTags ==
    /\ pc = "verifySyncTags"
    /\ \E o \in Outcomes(SyncTagsOutcomes(loc.region, loc.secretName)) :
          /\ Inject(o = "ok")
          /\ calls' = calls \o SyncTagsCalls(loc.region, loc.secretName, o)
          /\ store' = SyncTagsStore(loc.region, loc.secretName, o)
          /\ IF TagSyncErr(NoTags, NoTags, o) # NoErr
             THEN /\ Return(TagsSeen(loc), TagSyncErr(NoTags, NoTags, o))
                  /\ db' = db
             ELSE /\ db' = [db EXCEPT !.userCreated = TRUE, !.databaseCreated = TRUE,
                                      !.secretCreated = TRUE,
                                      !.actualSecretName = loc.secretName]
                  /\ loc' = TagsSeen(loc)
                  /\ pc' = "grant"
    /\ UNCHANGED <<object, result, userExists, userPw, dbExists, granted, pwCount>>

\* region change: SecretExists(db.Status.ActualSecretName) in the old region
OldRegionSecretExists ==
    /\ pc = "oldRegionSecretExists"
    /\ LET sec == store[db.secretRegion][db.actualSecretName]
       IN  \E ok \in Oks :
             /\ Inject(ok)
             /\ Call("SecretExistsOld", ok)
             /\ IF ~ok THEN Return(loc, CausedErr("failed to check if secret exists in old region",
                                                  AccessDenied))
                ELSE IF sec.exists
                THEN /\ loc' = loc
                     /\ pc' = "oldRegionGetSecret"
                ELSE Return(loc, Err("region changed but secret not found in old region - cannot recover password"))
    /\ UNCHANGED <<object, db, result, world, pwCount>>

\* region change: GetSecret in the old region, then the created flags
OldRegionGetSecret ==
    /\ pc = "oldRegionGetSecret"
    /\ LET sec == store[db.secretRegion][db.actualSecretName]
       IN  \E ok \in Oks :
             /\ Inject(ok)
             /\ Call("GetSecretOld", ok /\ Readable(sec))
             /\ IF ~(ok /\ Readable(sec))
                THEN /\ Return(loc, GetSecretErrOn("failed to retrieve secret from old region", ok, sec))
                     /\ db' = db
                ELSE IF IsEmpty(GetSecretPassword(sec))
                THEN /\ Return(loc, Err("could not extract password from secret in old region"))
                     /\ db' = db
                ELSE /\ loc' = [loc EXCEPT !.password = GetSecretPassword(sec),
                                           !.readPw = GetSecretPassword(sec)]
                     /\ db' = [db EXCEPT !.userCreated = TRUE, !.databaseCreated = TRUE,
                                         !.actualSecretName = loc.secretName]
                     /\ pc' = "grant"
    /\ UNCHANGED <<object, result, world, pwCount>>

\* GeneratePassword called with 16 in place of 32
GeneratePasswordOfLen16(n) == [id |-> n, len |-> GeneratePasswordLen(16)]

\* database.GeneratePassword(32)
GeneratePassword(n) == [id |-> n, len |-> GeneratePasswordLen(32)]

\* outcomes of a creating statement followed by a COMMENT statement
CreateOutcomes == {"ok", "failed", "failedAfterCreate"}

\* createErr that lets an error pass when the object itself was created
createErrNothingCreated(o) == o = "failed"

\* "if err := dbClient.CreateUser / CreateDatabase(...); err != nil": the
\* statement returns an error unless both of its statements succeeded
createErr(o) == o # "ok"

\* create branch: GeneratePassword, then CreateUser unless the user was seen
CreateUser ==
    /\ pc = "createUser"
    /\ pwCount < MaxPw
    /\ pwCount' = pwCount + 1
    /\ LET password == GeneratePassword(pwCount + 1)
           l1 == [loc EXCEPT !.password = password, !.generated = TRUE]
       IN  IF loc.userExists
           THEN /\ db' = [db EXCEPT !.userCreated = TRUE]
                /\ loc' = l1
                /\ pc' = "createDatabase"
                /\ UNCHANGED <<calls, userExists, userPw, failures>>
           ELSE \E o \in Outcomes(CreateOutcomes) :
                  /\ Inject(o = "ok")
                  /\ Call("CreateUser", o = "ok")
                  /\ userExists' = (userExists \/ o # "failed")
                  /\ userPw' = IF o # "failed" THEN password ELSE userPw
                  /\ IF ~createErr(o)
                     THEN /\ db' = [db EXCEPT !.userCreated = TRUE]
                          /\ loc' = l1
                          /\ pc' = "createDatabase"
                     ELSE /\ Return(l1, Err("failed to create user"))
                          /\ db' = db
    /\ UNCHANGED <<object, result, dbExists, granted, store>>

\* create branch: CreateDatabase unless the database was seen
CreateDatabase ==
    /\ pc = "createDatabase"
    /\ IF loc.dbExists
       THEN /\ db' = [db EXCEPT !.databaseCreated = TRUE]
            /\ loc' = loc
            /\ pc' = "grant"
            /\ UNCHANGED <<calls, dbExists, failures>>
       ELSE \E o \in Outcomes(CreateOutcomes) :
              /\ Inject(o = "ok")
              /\ Call("CreateDatabase", o = "ok")
              /\ dbExists' = (dbExists \/ o # "failed")
              /\ IF ~createErr(o)
                 THEN /\ db' = [db EXCEPT !.databaseCreated = TRUE]
                      /\ loc' = loc
                      /\ pc' = "grant"
                 ELSE /\ Return(loc, Err("failed to create database"))
                      /\ db' = db
    /\ UNCHANGED <<object, result, userExists, userPw, granted, store, pwCount>>

\* "defer func() { _ = targetDB.Close() }()" of PostgresClient.GrantPrivileges:
\* the connection to the target database is closed when the grant returns
TargetClosed(open) == open \ {"target"}

\* dbClient.GrantAllPrivileges(databaseName, username), which grants ALL;
\* spec.privileges goes into the log line before the call only.  The call
\* fails when the role or the database is missing
GrantAllPrivileges ==
    /\ pc = "grant"
    /\ \E ok \in Oks :
          LET done == ok /\ userExists /\ dbExists
              l1 == [loc EXCEPT !.open = TargetClosed(@ \cup {"target"})]
          IN  /\ Inject(ok)
              /\ Call("GrantAllPrivileges", done)
              /\ granted' = IF done THEN granted \cup {"ALL"} ELSE granted
              /\ IF done THEN /\ loc' = l1
                              /\ pc' = "storeSecretExists"
                 ELSE Return(l1, Err("failed to grant privileges"))
    /\ UNCHANGED <<object, db, result, userExists, userPw, dbExists, store, pwCount>>


(***************************************************************************)
(* storeCredentialsInAWS.                                                  *)
(***************************************************************************)
\* the region-change test of storeCredentialsInAWS: made on getRegion(db),
\* before the client resolves an empty region
RegionChangedSpec(st, s) ==
    st.secretRegion # "" /\ st.secretRegion # getRegion(s)

\* the status fields storeCredentialsInAWS sets before it returns nil
StoredStatus(d, l) ==
    [d EXCEPT !.secretCreated = TRUE, !.secretARN = l.secretARN,
              !.secretFormatVersion = "v2", !.secretRegion = l.region]

\* the old-region delete is issued only with the ARN of the written secret
DeletesOldRegion(d, l) ==
    l.regionChanged /\ d.secretRegion # "" /\ l.secretARN # ""

\* storeStep with the clean-up of the old region ahead of the write
storeStepDeleteFirst(l) ==
    IF l.regionChanged THEN "storeDeleteOld"
    ELSE IF l.exists THEN "storeUpdate"
    ELSE "storeCreate"

\* what storeCredentialsInAWS does after its existence check: a look at the
\* old region when the region changed and the new one has no secret, then
\* the update of an existing secret or the creation of a new one
storeStep(l) ==
    IF l.regionChanged /\ ~l.exists THEN "storeCheckOldRegion"
    ELSE IF l.exists THEN "storeUpdate"
    ELSE "storeCreate"

\* secretName and regionChanged, then awsClient.SecretExists
StoreSecretExists ==
    /\ pc = "storeSecretExists"
    /\ IF ~ValidateRegion(getRegion(spec))
       THEN /\ Return(loc, Err("invalid AWS region"))
            /\ db' = [db EXCEPT !.actualSecretName = getSecretNameOrDefault(spec)]
            /\ UNCHANGED <<calls, failures>>
       ELSE
       LET secretName == getSecretNameOrDefault(spec)
           region == ClientRegion(getRegion(spec))
           l1 == [loc EXCEPT !.secretName = secretName, !.region = region,
                             !.regionChanged = RegionChangedSpec(db, spec),
                             !.exists = store[region][secretName].exists,
                             !.createSecret = ~store[region][secretName].exists]
       IN  /\ db' = [db EXCEPT !.actualSecretName = secretName]
           /\ \E ok \in Oks :
                /\ Inject(ok)
                /\ Call("SecretExists", ok)
                /\ IF ~ok THEN Return(loc, CausedErr("failed to describe secret", AccessDenied))
                   ELSE /\ loc' = l1
                        /\ pc' = storeStep(l1)
    /\ UNCHANGED <<object, result, world, pwCount>>

\* region changed and no secret in the new region: the old region is looked
\* at for the log only
StoreCheckOldRegion ==
    /\ pc = "storeCheckOldRegion"
    /\ \E ok \in Oks :
          /\ Inject(ok)
          /\ Call("SecretExistsOld", ok)
    /\ pc' = "storeCreate"
    /\ UNCHANGED <<object, db, loc, result, world, pwCount>>

\* outcomes of UpdateSecretWithTemplate followed by GetSecretARN: "notFound"
\* is SecretNotFoundError, the secret having been deleted outside the
\* operator since the existence check
\* ("markedForDeletion", SecretMarkedForDeletionError, follows from the
\* state of the secret)
UpdateOutcomes == {"ok", "okNoARN", "notFound", "failed"}

\* the recovery that treats SecretMarkedForDeletionError as any other error
createsAfterNotFoundOnly(o) == o = "notFound"

\* "createSecret = true": UpdateSecretWithTemplate returned
\* SecretNotFoundError or SecretMarkedForDeletionError
createsAfter(o) == o \in {"notFound", "markedForDeletion"}

\* the outcome of UpdateSecretWithTemplate on sec: client.UpdateSecret
\* refuses a secret that is scheduled for deletion
UpdateOutcome(sec, o) ==
    IF o \in {"ok", "okNoARN"} /\ sec.scheduled THEN "markedForDeletion" ELSE o

StoreUpdate ==
    /\ pc = "storeUpdate"
    /\ \E o \in Outcomes(UpdateOutcomes) :
          LET sec == store[loc.region][loc.secretName]
          IN  IF UpdateOutcome(sec, o) \in {"notFound", "markedForDeletion"}
              THEN /\ Inject(o # "notFound")
                   /\ Call("UpdateSecret", FALSE)
                   /\ store' = IF o = "notFound"
                               THEN [store EXCEPT ![loc.region][loc.secretName] = NoSecret]
                               ELSE store
                   /\ IF createsAfter(UpdateOutcome(sec, o))
                      THEN /\ loc' = [loc EXCEPT !.createSecret = TRUE]
                           /\ pc' = "storeCreate"
                      ELSE Return(loc, CausedErr("failed to update secret",
                                                 MarkedForDeletion))
              ELSE IF o = "failed"
              THEN /\ Inject(FALSE)
                   /\ Call("UpdateSecret", FALSE)
                   /\ store' = store
                   /\ Return(loc, CausedErr("failed to update secret", AccessDenied))
              ELSE /\ Inject(o = "ok")
                   /\ calls' = calls \o <<[op |-> "UpdateSecret", ok |-> TRUE],
                                          [op |-> "GetSecretARN", ok |-> o = "ok"]>>
                   /\ store' = [store EXCEPT ![loc.region][loc.secretName] =
                                   [exists |-> TRUE, tags |-> sec.tags,
                                    description |-> sec.description,
                                    scheduled |-> FALSE]
                                   @@ toJSONDefault(loc.password)]
                   /\ loc' = [loc EXCEPT !.secretARN = IF o = "ok" THEN "arn" ELSE ""]
                   /\ pc' = "storeSyncTags"
    /\ UNCHANGED <<object, db, result, userExists, userPw, dbExists, granted, pwCount>>

\* the description of the create block of storeCredentialsInAWS
Description(s) == IF s.description # "" THEN s.description ELSE DefaultDescription

\* CreateSecretWithTemplate with the description and the desired tags
\* a secret scheduled for deletion is restored and then given the payload,
\* the description and the tags of the call (TagSecret keeps the other tags)
StoreCreate ==
    /\ pc = "storeCreate"
    /\ LET sec == store[loc.region][loc.secretName]
       IN  \E ok \in Oks :
             LET done == ok /\ (~sec.exists \/ sec.scheduled)
             IN  /\ Inject(ok)
                 /\ Call("CreateSecret", done)
                 /\ IF done
                    THEN /\ store' = [store EXCEPT ![loc.region][loc.secretName] =
                                         [exists |-> TRUE,
                                          tags |-> DesiredTags(spec) @@ sec.tags,
                                          description |-> Description(spec),
                                          scheduled |-> FALSE]
                                         @@ toJSONDefault(loc.password)]
                         /\ loc' = [loc EXCEPT !.secretARN = "arn"]
                         /\ pc' = "storeSyncTags"
                    ELSE /\ Return(loc, CausedErr("failed to create secret",
                                                  IF ok THEN ResourceExists ELSE AccessDenied))
                         \* a restore that fails part-way may have restored the secret
                         /\ \E restored \in (IF sec.scheduled THEN BOOLEAN ELSE {FALSE}) :
                               store' = IF restored
                                        THEN [store EXCEPT
                                                ![loc.region][loc.secretName].scheduled = FALSE]
                                        ELSE store
    /\ UNCHANGED <<object, db, result, userExists, userPw, dbExists, granted, pwCount>>

\* the "always update tags" block of storeCredentialsInAWS; without a region
\* change to clean up, the function sets the status fields and returns
StoreSyncTags ==
    /\ pc = "storeSyncTags"
    /\ \E o \in Outcomes(SyncTagsOutcomes(loc.region, loc.secretName)) :
          /\ Inject(o = "ok")
          /\ calls' = calls \o SyncTagsCalls(loc.region, loc.secretName, o)
          /\ store' = SyncTagsStore(loc.region, loc.secretName, o)
          /\ IF TagSyncErr(NoTags, NoTags, o) # NoErr
             THEN /\ Return(TagsSeen(loc), TagSyncErr(NoTags, NoTags, o))
                  /\ db' = db
             ELSE IF DeletesOldRegion(db, loc)
             THEN /\ loc' = TagsSeen(loc)
                  /\ pc' = "storeDeleteOld"
                  /\ db' = db
             ELSE /\ loc' = Deferred(TagsSeen(loc))
                  /\ pc' = "finish"
                  /\ db' = StoredStatus(db, loc)
    /\ UNCHANGED <<object, result, userExists, userPw, dbExists, granted, pwCount>>

\* force delete of secretName in db.Status.SecretRegion; a failure is logged
StoreDeleteOld ==
    /\ pc = "storeDeleteOld"
    /\ \E ok \in Oks :
          /\ Inject(ok)
          /\ Call("DeleteSecretOld", ok)
          /\ store' = IF ok
                      THEN [store EXCEPT ![db.secretRegion][loc.secretName] =
                                            DeletedSecret(@, TRUE)]
                      ELSE store
    /\ db' = StoredStatus(db, loc)
    /\ loc' = Deferred(loc)
    /\ pc' = "finish"
    /\ UNCHANGED <<object, result, userExists, userPw, dbExists, granted, pwCount>>

(***************************************************************************)
(* Reconcile after reconcileDatabase returned: the status write and the    *)
(* result handed to the controller runtime.                                *)
(***************************************************************************)
\* normalizeErrorMessage that leaves the message as it is
normalizeErrorMessageAsIs(e) == e

\* normalizeErrorMessage: the "RequestID: ..." part is cut out
normalizeErrorMessage(e) == [e EXCEPT !.requestId = ""]

\* isAWSPermissionError: the message holds one of the permission keywords
isAWSPermissionError(e) == e.cause \in {AccessDenied}

\* isAWSResourceNotFoundError that knows no keyword
isAWSResourceNotFoundErrorNever(e) == FALSE

\* isAWSResourceNotFoundError: the message holds "ResourceNotFoundException"
\* or one of the two other keywords
isAWSResourceNotFoundError(e) == e.cause \in {ResourceNotFound}

\* the reason of the warning event recorded for err
EventReason(e) ==
    IF e.cause = "NotFound" THEN "ConfigurationError"
    ELSE IF isAWSPermissionError(e) THEN "PermissionError"
    ELSE IF isAWSResourceNotFoundError(e) THEN "ResourceNotFound"
    ELSE "ReconciliationError"

\* what Reconcile returns for err: a fixed requeue and no error for the two
\* classes that need a person, else the error, which the rate limiter of
\* SetupWithManager turns into a retry
ErrorResult(e) ==
    IF isAWSPermissionError(e) \/ isAWSResourceNotFoundError(e) THEN "requeueAfter5m"
    ELSE "error"

Finish ==
    /\ pc = "finish"
    /\ pc' = "done"
    /\ IF loc.err # NoErr
       THEN LET normalizedErrMsg == normalizeErrorMessage(loc.err)
                statusChanged == db.phase # "Error" \/ db.message # normalizedErrMsg
                d == [db EXCEPT !.phase = "Error", !.message = normalizedErrMsg,
                                !.observedGeneration = generation]
            IN  /\ result' = ErrorResult(loc.err)
                /\ IF statusChanged
                   THEN /\ \E ok \in Oks :
                             /\ Inject(ok)
                             /\ Call("StatusUpdate", ok)
                             /\ db' = d
                             /\ status' = IF ok THEN d ELSE status
                        /\ loc' = [loc EXCEPT !.events =
                                     Append(@, [type |-> "Warning",
                                                reason |-> EventReason(loc.err)])]
                   ELSE UNCHANGED <<calls, db, status, failures, loc>>
       ELSE LET d == [db EXCEPT !.phase = "Ready", !.message = ReadyMessage,
                                !.observedGeneration = generation]
            IN  /\ \E ok \in Oks :
                     /\ Inject(ok)
                     /\ Call("StatusUpdate", ok)
                     /\ db' = d
                     /\ status' = IF ok THEN d ELSE status
                     /\ result' = IF ok THEN "requeueAfter10m" ELSE "error"
                /\ loc' = loc
    /\ UNCHANGED <<generation, spec, finalizer, deletionTimestamp, world, pwCount>>

(***************************************************************************)
(* The environment.                                                        *)
(***************************************************************************)
\* the controller runtime abandons the running pass (shutdown, timeout)
Abandon ==
    /\ pc \notin {"idle", "done"}
    /\ failures < MaxFail
    /\ failures' = failures + 1
    /\ pc' = "idle"
    /\ loc' = NoLoc
    /\ calls' = <<>>
    /\ db' = status
    /\ result' = "none"
    /\ UNCHANGED <<object, world, pwCount>>

\* the user edits one field of the spec between passes
EditSpec ==
    /\ pc \in {"idle", "done"}
    /\ generation < MaxGen
    /\ generation' = generation + 1
    /\ \E s \in Specs :
          /\ s # spec
          /\ s.awsRefRegion = spec.awsRefRegion
          /\ s.region = spec.region \/ s.secretName = spec.secretName
          /\ spec' = s
    /\ pc' = "idle"
    /\ loc' = NoLoc
    /\ calls' = <<>>
    /\ UNCHANGED <<status, finalizer, deletionTimestamp, db, result, world, pwCount,
                   failures>>

\* somebody deletes a secret in Secrets Manager between two passes
ExternalDeleteSecret ==
    /\ pc \in {"idle", "done"}
    /\ \E r \in Regions, n \in SecretNames :
          /\ store[r][n].exists
          /\ store' = [store EXCEPT ![r][n] = NoSecret]
    /\ pc' = "idle"
    /\ loc' = NoLoc
    /\ calls' = <<>>
    /\ UNCHANGED <<object, db, result, userExists, userPw, dbExists, granted, pwCount,
                   failures>>

Next ==
    \/ Reconcile
    \/ GetConnectionString
    \/ NewClient
    \/ MigrationGetSecret
    \/ UserExists
    \/ DatabaseExists
    \/ SecretExists
    \/ VerifyGetSecret
    \/ VerifySyncTags
    \/ OldRegionSecretExists
    \/ OldRegionGetSecret
    \/ CreateUser
    \/ CreateDatabase
    \/ GrantAllPrivileges
    \/ StoreSecretExists
    \/ StoreCheckOldRegion
    \/ StoreUpdate
    \/ StoreCreate
    \/ StoreSyncTags
    \/ StoreDeleteOld
    \/ Finish
    \/ Abandon
    \/ EditSpec
    \/ ExternalDeleteSecret

Spec == Init /\ [][Next]_vars

(***************************************************************************)
(* Properties.  The history fields of loc hold the state the running pass  *)
(* started from; calls holds the remote calls it issued, in order.         *)
(***************************************************************************)
Issued(op) == \E i \in DOMAIN calls : calls[i].op = op
Succeeded(op) == \E i \in DOMAIN calls : calls[i].op = op /\ calls[i].ok
Count(op) == Cardinality({i \in DOMAIN calls : calls[i].op = op})
NoFailedCall == \A i \in DOMAIN calls : calls[i].ok

\* the pass got as far as the decision on (database, user, secret): the
\* existence check of the secret that follows the one of the database
DecisionReached ==
    \E i \in DOMAIN calls :
        /\ i > 1
        /\ calls[i - 1].op = "DatabaseExists"
        /\ calls[i].op = "SecretExists" /\ calls[i].ok

\* the secret of the current spec: in the resolved region, under the spec's name
TargetRegion == ClientRegion(getRegion(spec))
TargetName == getSecretNameOrDefault(spec)
TargetSecret == store[TargetRegion][TargetName]
StartTargetSecret == loc.startStore[TargetRegion][TargetName]

\* C1: password stability.  A pass that starts with the credential secret in
\* place, whatever it finds of user and database, and in which no remote call
\* fails, leaves the secret in place with the password it held before.
C1_PasswordStable ==
    (/\ pc = "done"
     /\ loc.branch # "finalizer"
     /\ NoFailedCall
     /\ StartTargetSecret.exists)
    => /\ TargetSecret.exists
       /\ GetSecretPassword(TargetSecret) = GetSecretPassword(StartTargetSecret)

C2_Premise ==
    /\ pc = "done"
    /\ DecisionReached
    /\ loc.userExists \/ loc.dbExists
    /\ ~loc.secretExists
    /\ loc.startStatus.secretRegion \in {"", loc.region}

\* C2: unrecoverable password.  A pass that finds the user or the database,
\* finds no secret in the target region, and has no other region recorded in
\* the status, ends in phase Error with the message that names which of
\* database and user exist; it issues no CreateUser, CreateDatabase,
\* GrantAllPrivileges or secret write and leaves engine and store as they were.
C2_Unrecoverable ==
    C2_Premise
    => /\ db.phase = "Error"
       /\ db.message = [Err(UnrecoverableKind) EXCEPT
                           !.db = loc.startDb, !.user = loc.startUser]
       /\ result = "error"
       /\ (Issued("StatusUpdate") => Succeeded("StatusUpdate")) => status = db
       /\ \A op \in {"CreateUser", "CreateDatabase", "SetPassword",
                     "GrantAllPrivileges", "UpdateSecret", "CreateSecret",
                     "DeleteSecretOld"} : ~Issued(op)
       /\ ~loc.generated
       /\ <<userExists, userPw, dbExists>>
            = <<loc.startUser, loc.startUserPw, loc.startDb>>
       /\ store = loc.startStore

C2_Witness ==
    /\ C2_Premise
    /\ loc.userExists /\ ~loc.dbExists
    /\ status.phase = "Error"
    /\ status.message.kind = UnrecoverableKind
    /\ status.message.user /\ ~status.message.db

C3_Premise ==
    /\ pc = "done"
    /\ DecisionReached
    /\ NoFailedCall
    /\ ~loc.startUser /\ ~loc.startDb /\ ~StartTargetSecret.exists

\* C3: full create.  A pass that finds neither user nor database nor secret,
\* and in which no remote call fails, issues exactly one CreateUser, one
\* CreateDatabase and one CreateSecret, generates a password of at least 32
\* characters that the user and the secret then carry, and persists
\* userCreated, databaseCreated, secretCreated and phase Ready.
C3_FullCreate ==
    C3_Premise
    => /\ Count("CreateUser") = 1
       /\ Count("CreateDatabase") = 1
       /\ Count("CreateSecret") = 1
       /\ ~Issued("UpdateSecret")
       /\ loc.generated
       /\ loc.password.len >= 32
       /\ userExists /\ userPw = loc.password
       /\ dbExists
       /\ TargetSecret.exists /\ GetSecretPassword(TargetSecret) = loc.password
       /\ status.userCreated /\ status.databaseCreated /\ status.secretCreated
       /\ status.phase = "Ready"

C3_Witness ==
    /\ C3_Premise
    /\ Count("CreateSecret") = 1
    /\ status.phase = "Ready"
    /\ userPw.len = 32

(***************************************************************************)
(* Recovery: a new object with nothing in place, reconciled with no edit   *)
(* of the spec and no deletion from outside.  A pass that then finds the   *)
(* user without the secret follows a create pass that stopped part-way.    *)
(***************************************************************************)
InitRecovery ==
    /\ Init
    /\ status = ZeroStatus
    /\ ~userExists
    /\ ~dbExists
    /\ store = EmptyStore

NextRecovery ==
    \/ Reconcile
    \/ GetConnectionString
    \/ NewClient
    \/ UserExists
    \/ DatabaseExists
    \/ SecretExists
    \/ VerifyGetSecret
    \/ VerifySyncTags
    \/ CreateUser
    \/ CreateDatabase
    \/ GrantAllPrivileges
    \/ StoreSecretExists
    \/ StoreUpdate
    \/ StoreCreate
    \/ StoreSyncTags
    \/ Finish
    \/ Abandon

SpecRecovery == InitRecovery /\ [][NextRecovery]_vars

\* C4: recovery from partial completion.  After a create pass that stopped
\* once the user was created (with or without the database and the grant) and
\* before the secret was written, a later pass in which no remote call fails
\* ends in phase Ready with user, database and secret in place.
C4_Recovers ==
    (/\ pc = "done"
     /\ DecisionReached
     /\ NoFailedCall
     /\ loc.startUser
     /\ ~StartTargetSecret.exists)
    => /\ db.phase = "Ready"
       /\ userExists /\ dbExists /\ TargetSecret.exists

OldRegionSecretAtStart ==
    loc.startStore[loc.startStatus.secretRegion][loc.startStatus.actualSecretName]

C5_Premise ==
    /\ pc = "done"
    /\ DecisionReached
    /\ NoFailedCall
    /\ loc.userExists \/ loc.dbExists
    /\ ~loc.secretExists
    /\ loc.startStatus.secretRegion \notin {"", loc.region}
    /\ loc.startStatus.actualSecretName # ""
    /\ OldRegionSecretAtStart.exists

WriteOps == {"UpdateSecret", "CreateSecret"}

C6_RegionChange ==
    /\ pc # "idle"
    /\ loc.branch # "finalizer"
    /\ loc.startStatus.secretRegion \notin {"", TargetRegion}

\* C6: the old region's secret is deleted only after the write.  In every
\* pass a delete in the old region follows a successful UpdateSecret or
\* CreateSecret of the same pass; and while a pass whose status records
\* another region than the target has made no successful write, it has issued
\* no delete and the recorded region holds what it held when the pass began.
C6_DeleteAfterWrite ==
    /\ \A i \in DOMAIN calls :
          calls[i].op = "DeleteSecretOld"
          => \E j \in 1..(i - 1) : calls[j].op \in WriteOps /\ calls[j].ok
    /\ (C6_RegionChange /\ ~\E op \in WriteOps : Succeeded(op))
       => /\ ~Issued("DeleteSecretOld")
          /\ store[loc.startStatus.secretRegion]
               = loc.startStore[loc.startStatus.secretRegion]

C6_Witness ==
    /\ C6_RegionChange
    /\ pc = "done"
    /\ Succeeded("DeleteSecretOld")
    /\ loc.startStore[loc.startStatus.secretRegion][TargetName].exists
    /\ ~store[loc.startStatus.secretRegion][TargetName].exists
    /\ TargetSecret.exists

Rank(op) ==
    CASE op = "CreateUser" -> 1
      [] op = "CreateDatabase" -> 2
      [] op = "GrantAllPrivileges" -> 3
      [] op \in WriteOps -> 4
      [] OTHER -> 0

Ranked == {i \in DOMAIN calls : Rank(calls[i].op) > 0}

\* C7: order within a pass.  Of CreateUser, CreateDatabase, GrantAllPrivileges
\* and the secret write, none is issued after a later one of the sequence,
\* and one is issued after an earlier one only if the earlier one succeeded.
C7_Order ==
    \A i, j \in Ranked :
        i < j
        => /\ Rank(calls[i].op) <= Rank(calls[j].op)
           /\ Rank(calls[i].op) < Rank(calls[j].op) => calls[i].ok

C7_Witness ==
    /\ pc = "done"
    /\ \E i, j, k, l \in DOMAIN calls :
          /\ i < j /\ j < k /\ k < l
          /\ calls[i].op = "CreateUser"
          /\ calls[j].op = "CreateDatabase"
          /\ calls[k].op = "GrantAllPrivileges"
          /\ calls[l].op = "CreateSecret"

C8_Premise ==
    /\ pc # "idle"
    /\ loc.branch # "finalizer"
    /\ loc.startStatus.userCreated
    /\ loc.startStatus.databaseCreated
    /\ loc.startStatus.secretCreated
    /\ loc.startStatus.secretFormatVersion # currentSecretFormatVersion

\* C8: format migration.  A pass on an object whose status has the three
\* created flags and a format version other than the current one generates no
\* password, issues no CreateUser or CreateDatabase and leaves the user's
\* password alone; the secret it writes carries the password it read from the
\* secret of the recorded name; and when no remote call fails the persisted
\* format version is the current one.
C8_FormatMigration ==
    C8_Premise
    => /\ ~loc.generated
       /\ \A op \in {"CreateUser", "CreateDatabase", "SetPassword"} : ~Issued(op)
       /\ <<userExists, userPw, dbExists>>
            = <<loc.startUser, loc.startUserPw, loc.startDb>>
       /\ pc = "storeSyncTags"
          => /\ Succeeded("GetSecret")
             /\ \E op \in WriteOps : Succeeded(op)
             /\ loc.password # EmptyPw
             /\ loc.password = GetSecretPassword(
                   loc.startStore[TargetRegion][loc.startStatus.actualSecretName])
             /\ TargetSecret.exists
             /\ TargetSecret.DB_PASSWORD = loc.password
       /\ (pc = "done" /\ NoFailedCall)
          => /\ \E op \in WriteOps : Succeeded(op)
             /\ status.secretFormatVersion = currentSecretFormatVersion
             /\ status.phase = "Ready"

C8_Witness ==
    /\ C8_Premise
    /\ pc = "done"
    /\ NoFailedCall
    /\ loc.startStatus.secretFormatVersion = "v1"
    /\ StartTargetSecret.DB_PASSWORD = EmptyPw
    /\ StartTargetSecret.password = PriorPw
    /\ TargetSecret.DB_PASSWORD = PriorPw
    /\ status.secretFormatVersion = "v2"

C9_Premise ==
    /\ pc # "idle"
    /\ loc.branch \notin {"finalizer", "short"}
    /\ loc.startUser /\ loc.startDb /\ StartTargetSecret.exists

\* C9: verify-and-sync.  A pass that starts with user, database and secret in
\* place generates no password, issues no CreateUser or CreateDatabase and
\* leaves the user's password alone; the password it writes to the secret is
\* the one it fetched from the store, and for a pass that made the existence
\* checks that is the password the target secret held when the pass began.
C9_VerifyAndSync ==
    C9_Premise
    => /\ ~loc.generated
       /\ \A op \in {"CreateUser", "CreateDatabase", "SetPassword"} : ~Issued(op)
       /\ <<userExists, userPw, dbExists>>
            = <<loc.startUser, loc.startUserPw, loc.startDb>>
       /\ pc = "storeSyncTags"
          => /\ Succeeded("GetSecret")
             /\ loc.readPw # EmptyPw
             /\ loc.password = loc.readPw
             /\ TargetSecret.DB_PASSWORD = loc.readPw
             /\ DecisionReached
                => loc.readPw = GetSecretPassword(StartTargetSecret)

C9_Witness ==
    /\ C9_Premise
    /\ DecisionReached
    /\ pc = "storeSyncTags"
    /\ Succeeded("UpdateSecret")
    /\ TargetSecret.DB_PASSWORD = GetSecretPassword(StartTargetSecret)

ShortCircuitCondition ==
    /\ loc.startStatus.userCreated
    /\ loc.startStatus.databaseCreated
    /\ loc.startStatus.secretCreated
    /\ loc.startStatus.observedGeneration = generation
    /\ loc.startStatus.secretFormatVersion = "v2"

\* C10: short-circuit.  A pass short-circuits exactly when the status it
\* starts from has userCreated, databaseCreated and secretCreated, an
\* observedGeneration equal to the generation and the current format version;
\* a pass that short-circuits issues no remote call but the status write,
\* leaves engine and store alone, and ends in phase Ready.
C10_ShortCircuit ==
    pc # "idle"
    => /\ loc.branch = "short" <=> ShortCircuitCondition
       /\ loc.branch = "short"
          => /\ \A i \in DOMAIN calls : calls[i].op = "StatusUpdate"
             /\ <<userExists, userPw, dbExists, store>>
                  = <<loc.startUser, loc.startUserPw, loc.startDb, loc.startStore>>
             /\ pc = "done"
                => /\ db.phase = "Ready"
                   /\ Succeeded("StatusUpdate") => status.phase = "Ready"

C10_Witness ==
    /\ pc = "done"
    /\ loc.branch = "short"
    /\ ShortCircuitCondition
    /\ calls = <<[op |-> "StatusUpdate", ok |-> TRUE]>>
    /\ status.phase = "Ready"

(***************************************************************************)
(* Tag drift: the passes of one object whose secret's tags are changed     *)
(* from outside and whose spec tags are edited.                            *)
(***************************************************************************)
DriftKeys == {"team", "owner", ManagedByKey}
DriftValues == {"x", "y"}

\* the tag maps one change from outside can make of cur: a key removed, or a
\* key added or given another value
Drifted(cur) ==
    ({[k \in DOMAIN cur \ {r} |-> cur[k]] : r \in DOMAIN cur}
     \cup {[k \in DOMAIN cur \cup {a} |-> IF k = a THEN v ELSE cur[k]] :
              a \in DriftKeys, v \in DriftValues})
    \ {cur}

\* somebody changes one tag of the credential secret, which carried the
\* desired tags, between two passes
ExternalTagSecret ==
    /\ pc \in {"idle", "done"}
    /\ TargetSecret.exists
    /\ TargetSecret.tags = DesiredTags(spec)
    /\ \E t \in Drifted(TargetSecret.tags) :
          store' = [store EXCEPT ![TargetRegion][TargetName].tags = t]
    /\ pc' = "idle"
    /\ loc' = NoLoc
    /\ calls' = <<>>
    /\ UNCHANGED <<object, db, result, userExists, userPw, dbExists, granted, pwCount,
                   failures>>

\* spec.awsSecretsManager.tags a user may edit the object to
TagEdits == {NoTags, [k \in {"owner"} |-> "x"], [k \in {"team"} |-> "x"]}

\* the user edits spec.awsSecretsManager.tags between passes
EditTags ==
    /\ pc \in {"idle", "done"}
    /\ generation < MaxGen
    /\ generation' = generation + 1
    /\ \E t \in TagEdits \ {spec.tags} : spec' = [spec EXCEPT !.tags = t]
    /\ pc' = "idle"
    /\ loc' = NoLoc
    /\ calls' = <<>>
    /\ UNCHANGED <<status, finalizer, deletionTimestamp, db, result, world, pwCount,
                   failures>>

\* a new object with an explicit region and the default secret name
InitTags ==
    /\ Init
    /\ status = ZeroStatus
    /\ spec.region = "eu-west-1"
    /\ spec.secretName = ""

NextTags ==
    \/ Reconcile
    \/ GetConnectionString
    \/ NewClient
    \/ UserExists
    \/ DatabaseExists
    \/ SecretExists
    \/ VerifyGetSecret
    \/ VerifySyncTags
    \/ CreateUser
    \/ CreateDatabase
    \/ GrantAllPrivileges
    \/ StoreSecretExists
    \/ StoreUpdate
    \/ StoreCreate
    \/ StoreSyncTags
    \/ Finish
    \/ Abandon
    \/ ExternalTagSecret
    \/ EditTags

SpecTags == InitTags /\ [][NextTags]_vars

\* C11: tag self-healing.  A successful pass in which no remote call fails
\* leaves the credential secret with exactly the desired tags, whichever
\* branch it took, so that a change made to the tags from outside is undone
\* by the next successful pass.
C11_SelfHealing ==
    (/\ pc = "done"
     /\ loc.branch # "finalizer"
     /\ loc.err = NoErr
     /\ NoFailedCall
     /\ TargetSecret.exists)
    => TargetSecret.tags = DesiredTags(spec)

\* the "always update tags" block has just run and its calls succeeded
JustSynced ==
    /\ pc \in {"grant", "finish", "storeDeleteOld"}
    /\ Len(calls) >= 2
    /\ calls[Len(calls)].op = "TagSecret" /\ calls[Len(calls)].ok
    /\ LET i == IF calls[Len(calls) - 1].op = "UntagSecret"
                THEN Len(calls) - 2 ELSE Len(calls) - 1
       IN  i >= 1 /\ calls[i].op = "GetSecretTags" /\ calls[i].ok

\* C12: tag diff.  When the calls of the tag block succeed on a secret with
\* tags current, the block removes exactly the keys of current that desired
\* lacks (calling UntagSecret only if there is one), sets every entry of
\* desired that current lacked or held with another value, leaves the
\* entries equal in both as they were, and the secret's tags are then the
\* desired set: the spec tags plus ManagedBy.
C12_TagDiff ==
    JustSynced =>
        LET current == loc.tagsBefore
            desired == DesiredTags(spec)
            after == store[loc.region][loc.secretName].tags
        IN  /\ DOMAIN current \ DOMAIN after = getTagsToRemove(current, desired)
            /\ (calls[Len(calls) - 1].op = "UntagSecret")
                  <=> (getTagsToRemove(current, desired) # {})
            /\ \A k \in DOMAIN getTagsToAdd(current, desired) :
                  k \in DOMAIN after /\ after[k] = desired[k]
            /\ \A k \in DOMAIN current \cap DOMAIN desired :
                  current[k] = desired[k] => (k \in DOMAIN after /\ after[k] = current[k])
            /\ after = desired
            /\ ManagedByKey \in DOMAIN after

\* a block that removes a key, sets a key and leaves an equal entry alone
C12_Witness ==
    /\ JustSynced
    /\ getTagsToRemove(loc.tagsBefore, DesiredTags(spec)) # {}
    /\ DOMAIN getTagsToAdd(loc.tagsBefore, DesiredTags(spec)) # {}
    /\ \E k \in DOMAIN loc.tagsBefore \cap DOMAIN DesiredTags(spec) :
          loc.tagsBefore[k] = DesiredTags(spec)[k]
    /\ store[loc.region][loc.secretName].tags = DesiredTags(spec)

(***************************************************************************)
(* Deletion: reconcileDelete, one action per step.  A failure of a cleanup *)
(* step is logged and the function goes on, so the steps fail freely.      *)
(***************************************************************************)
\* "connectionString, _ := r.getConnectionString(ctx, db)"
DelGetConnectionString ==
    /\ pc = "delGetConnectionString"
    /\ IF validateConnectionSource(spec) # NoErr
       THEN /\ pc' = "delSecretsClient"
            /\ calls' = calls
       ELSE \E ok \in BOOLEAN :
              /\ Call("GetConnectionString", ok)
              /\ pc' = IF ok THEN "delNewClient" ELSE "delSecretsClient"
    /\ UNCHANGED <<object, db, loc, result, world, pwCount, failures>>

\* the clean-up with the two engine drops exchanged
cleanupOrderUserFirst == <<"dropUser", "dropDatabase", "delSecretsClient">>

\* the blocks of reconcileDelete's clean-up in the order of the text: the
\* database drop, the user drop, the deletion of the secret
cleanupOrder == <<"dropDatabase", "dropUser", "delSecretsClient">>

\* the block that follows a block of the clean-up
StepAfter(step) ==
    LET i == CHOOSE j \in DOMAIN cleanupOrder : cleanupOrder[j] = step
    IN  IF i < Len(cleanupOrder) THEN cleanupOrder[i + 1] ELSE "removeFinalizer"

\* "if dbClient, err := database.NewClient(...); err == nil"
DelNewClient ==
    /\ pc = "delNewClient"
    /\ \E o \in NewClientOutcomes :
          /\ Call("NewClient", o = "ok")
          /\ loc' = [loc EXCEPT !.open = @ \cup Connected(o)]
          /\ pc' = IF o = "ok" THEN cleanupOrder[1] ELSE "delSecretsClient"
    /\ UNCHANGED <<object, db, result, world, pwCount, failures>>

\* afterDropDatabase that gives up the engine clean-up when the drop failed
afterDropDatabaseStops(ok) == IF ok THEN "dropUser" ELSE "delSecretsClient"

\* the statement after the DropDatabase block, whatever the call returned
afterDropDatabase(ok) == StepAfter("dropDatabase")

\* dbClient.DropDatabase when status.databaseCreated
DropDatabase ==
    /\ pc = "dropDatabase"
    /\ IF db.databaseCreated
       THEN \E ok \in BOOLEAN :
              /\ Call("DropDatabase", ok)
              /\ dbExists' = IF ok THEN FALSE ELSE dbExists
              /\ granted' = IF ok THEN {} ELSE granted
              /\ pc' = afterDropDatabase(ok)
       ELSE /\ pc' = StepAfter("dropDatabase")
            /\ UNCHANGED <<calls, dbExists, granted>>
    /\ UNCHANGED <<object, db, loc, result, userExists, userPw, store, pwCount, failures>>

\* the test before DropUser that takes every user for the operator's
DropsUserAlways(st) == TRUE

\* "if db.Status.UserCreated": the user is dropped if the status records
\* that a pass created or adopted it
DropsUser(st) == st.userCreated

\* dbClient.DropUser when status.userCreated
DropUser ==
    /\ pc = "dropUser"
    /\ IF DropsUser(db)
       THEN \E ok \in BOOLEAN :
              /\ Call("DropUser", ok)
              /\ userExists' = IF ok THEN FALSE ELSE userExists
              /\ userPw' = IF ok THEN EmptyPw ELSE userPw
              /\ granted' = IF ok THEN {} ELSE granted
       ELSE UNCHANGED <<calls, userExists, userPw, granted>>
    /\ pc' = StepAfter("dropUser")
    /\ UNCHANGED <<object, db, loc, result, dbExists, store, pwCount, failures>>

\* when status.secretCreated: ValidateRegion, NewAWSSecretsManagerClient
DelSecretsClient ==
    /\ pc = "delSecretsClient"
    /\ IF ~db.secretCreated \/ ~ValidateRegion(getRegion(spec))
       THEN /\ pc' = "removeFinalizer"
            /\ calls' = calls
       ELSE \E ok \in BOOLEAN :
              /\ Call("NewAWSSecretsManagerClient", ok)
              /\ pc' = IF ok THEN "deleteSecret" ELSE "removeFinalizer"
    /\ UNCHANGED <<object, db, loc, result, world, pwCount, failures>>

\* awsClient.DeleteSecret(db.Status.ActualSecretName, force): a secret that
\* is not there is not an error
DeleteSecret ==
    /\ pc = "deleteSecret"
    /\ \E ok \in BOOLEAN :
          /\ Call("DeleteSecret", ok)
          /\ store' = IF ok /\ db.actualSecretName \in SecretNames
                      THEN [store EXCEPT ![ClientRegion(getRegion(spec))]
                                          [db.actualSecretName] = DeletedSecret(@, TRUE)]
                      ELSE store
    /\ pc' = "removeFinalizer"
    /\ UNCHANGED <<object, db, loc, result, userExists, userPw, dbExists, granted, pwCount,
                   failures>>

\* RemoveFinalizer and "return ctrl.Result{}, r.Update(ctx, db)"
RemoveFinalizer ==
    /\ pc = "removeFinalizer"
    /\ \E ok \in BOOLEAN :
          /\ Call("Update", ok)
          /\ finalizer' = IF ok THEN FALSE ELSE finalizer
          /\ result' = IF ok THEN "stop" ELSE "error"
    /\ loc' = Deferred(loc)
    /\ pc' = "done"
    /\ UNCHANGED <<generation, spec, status, deletionTimestamp, db, world, pwCount,
                   failures>>

\* the user deletes the object
RequestDelete ==
    /\ pc \in {"idle", "done"}
    /\ ~deletionTimestamp
    /\ deletionTimestamp' = TRUE
    /\ pc' = "idle"
    /\ loc' = NoLoc
    /\ calls' = <<>>
    /\ UNCHANGED <<generation, spec, status, finalizer, db, result, world, pwCount,
                   failures>>

\* regions a user may write into spec.awsSecretsManager.region: a valid one
\* and one that ValidateRegion rejects
DeleteRegions == {"eu-west-1", "mars-1"}

\* the user edits spec.awsSecretsManager.region between passes
EditRegion ==
    /\ pc \in {"idle", "done"}
    /\ generation < MaxGen
    /\ generation' = generation + 1
    /\ \E r \in DeleteRegions \ {spec.region} : spec' = [spec EXCEPT !.region = r]
    /\ pc' = "idle"
    /\ loc' = NoLoc
    /\ calls' = <<>>
    /\ UNCHANGED <<status, finalizer, deletionTimestamp, db, result, world, pwCount,
                   failures>>

DeleteSpecs == [region : {"eu-west-1"}, awsRefRegion : {""}, secretName : {""},
                tags : SpecTagMaps, retainOnDelete : {"unset", "true", "false"},
                secretRef : {TRUE}, awsSecretRef : {FALSE}, privileges : {{}},
                description : {""}]

\* a new object; nothing exists yet
InitDelete ==
    /\ generation = 1
    /\ spec \in DeleteSpecs
    /\ status = ZeroStatus
    /\ finalizer = FALSE
    /\ deletionTimestamp = FALSE
    /\ userExists = FALSE
    /\ userPw = EmptyPw
    /\ dbExists = FALSE
    /\ granted = {}
    /\ store = EmptyStore
    /\ db = status
    /\ pc = "idle"
    /\ loc = NoLoc
    /\ calls = <<>>
    /\ result = "none"
    /\ pwCount = 0
    /\ failures = 0

NextDelete ==
    \/ Reconcile
    \/ GetConnectionString
    \/ NewClient
    \/ UserExists
    \/ DatabaseExists
    \/ SecretExists
    \/ VerifyGetSecret
    \/ VerifySyncTags
    \/ CreateUser
    \/ CreateDatabase
    \/ GrantAllPrivileges
    \/ StoreSecretExists
    \/ StoreUpdate
    \/ StoreCreate
    \/ StoreSyncTags
    \/ Finish
    \/ Abandon
    \/ EditRegion
    \/ RequestDelete
    \/ DelGetConnectionString
    \/ DelNewClient
    \/ DropDatabase
    \/ DropUser
    \/ DelSecretsClient
    \/ DeleteSecret
    \/ RemoveFinalizer

SpecDelete == InitDelete /\ [][NextDelete]_vars

\* C13: retaining deletion.  The pass on an object that is being deleted,
\* carries the finalizer and has retainOnDelete true or unset issues no
\* call but the Update that removes the finalizer: no engine connection, no
\* DropDatabase, DropUser or DeleteSecret; user, database and secrets stay
\* as they were, and the finalizer is gone once the Update succeeded.
C13_Retain ==
    (/\ loc.branch = "delete"
     /\ spec.retainOnDelete \in {"unset", "true"})
    => /\ \A i \in DOMAIN calls : calls[i].op = "Update"
       /\ userExists = loc.startUser /\ userPw = loc.startUserPw
       /\ dbExists = loc.startDb
       /\ store = loc.startStore
       /\ pc = "done" => /\ calls = <<[op |-> "Update", ok |-> ~finalizer]>>
                          /\ result = IF finalizer THEN "error" ELSE "stop"

\* a retaining deletion of an object whose user, database and secret exist
C13_Witness ==
    /\ pc = "done"
    /\ loc.branch = "delete"
    /\ spec.retainOnDelete \in {"unset", "true"}
    /\ ~finalizer
    /\ loc.startStatus.userCreated /\ loc.startStatus.secretCreated
    /\ userExists /\ dbExists /\ TargetSecret.exists

PassEnded == pc = "done" /\ loc.branch \notin {"finalizer", "delete", "gone"}

\* C15: the unrecoverable-password error is terminal.  After a pass that
\* ended with it the controller runtime has no further pass scheduled for
\* the object: the next pass waits for an edit or the deletion of the object.
C15_Terminal ==
    (pc = "done" /\ loc.branch = "unrecoverable") => ~Scheduled

\* C16: failure classification drives the retry directive.  A failed pass
\* whose error wraps a permission-denied or a resource-not-found error of
\* Secrets Manager returns a requeue after 5 minutes and no error; a failed
\* pass with any other error returns the error; a successful pass returns a
\* requeue after 10 minutes (the error, when its status write failed).
C16_RetryDirective ==
    PassEnded =>
        /\ (loc.err # NoErr /\ loc.err.cause \in {AccessDenied, ResourceNotFound})
              => result = "requeueAfter5m"
        /\ (loc.err # NoErr /\ loc.err.cause \notin {AccessDenied, ResourceNotFound})
              => result = "error"
        /\ loc.err = NoErr
              => result = IF Succeeded("StatusUpdate") THEN "requeueAfter10m" ELSE "error"

\* a pass that failed on a secret that is not there
C16_Witness ==
    /\ PassEnded
    /\ loc.err.cause = ResourceNotFound
    /\ result = "requeueAfter5m"

\* two messages that differ at most in the RequestID
SameMessage(a, b) ==
    a.kind = b.kind /\ a.db = b.db /\ a.user = b.user /\ a.cause = b.cause

\* the persisted status already reports the error of the running pass
AlreadyReported ==
    loc.startStatus.phase = "Error" /\ SameMessage(loc.startStatus.message, loc.err)

WarningEvents == {i \in DOMAIN loc.events : loc.events[i].type = "Warning"}

C19_LifecycleRow ==
    (/\ pc = "done"
     /\ DecisionReached
     /\ NoFailedCall
     /\ ~loc.startUser /\ ~loc.startDb
     /\ StartTargetSecret.exists)
    => /\ userExists /\ dbExists
       /\ userPw = GetSecretPassword(StartTargetSecret)

(***************************************************************************)
(* Configuration: new objects with any combination of the two connection   *)
(* sources and with or without spec.privileges.                            *)
(***************************************************************************)
ConfigSpecs == [region : {"eu-west-1"}, awsRefRegion : {""}, secretName : {""},
                tags : SpecTagMaps, retainOnDelete : {"unset"},
                secretRef : BOOLEAN, awsSecretRef : BOOLEAN,
                privileges : {{}, {"SELECT"}}, description : {""}]

\* a new object; user, database and secret may already exist
InitConfig ==
    /\ generation = 1
    /\ spec \in ConfigSpecs
    /\ status = ZeroStatus
    /\ finalizer = FALSE
    /\ deletionTimestamp = FALSE
    /\ userExists \in BOOLEAN
    /\ userPw = IF userExists THEN PriorPw ELSE EmptyPw
    /\ dbExists \in BOOLEAN
    /\ granted = {}
    /\ \E present \in BOOLEAN :
          store = IF present
                  THEN [EmptyStore EXCEPT
                          ![ClientRegion(getRegion(spec))][getSecretNameOrDefault(spec)] =
                              [exists |-> TRUE, tags |-> NoTags,
                               description |-> DefaultDescription, scheduled |-> FALSE]
                              @@ toJSONDefault(PriorPw)]
                  ELSE EmptyStore
    /\ db = status
    /\ pc = "idle"
    /\ loc = NoLoc
    /\ calls = <<>>
    /\ result = "none"
    /\ pwCount = 0
    /\ failures = 0

NextConfig ==
    \/ Reconcile
    \/ GetConnectionString
    \/ NewClient
    \/ UserExists
    \/ DatabaseExists
    \/ SecretExists
    \/ VerifyGetSecret
    \/ VerifySyncTags
    \/ CreateUser
    \/ CreateDatabase
    \/ GrantAllPrivileges
    \/ StoreSecretExists
    \/ StoreUpdate
    \/ StoreCreate
    \/ StoreSyncTags
    \/ Finish
    \/ Abandon

SpecConfig == InitConfig /\ [][NextConfig]_vars

\* both connection sources are configured, or neither
InvalidSource == spec.secretRef = spec.awsSecretRef

\* the pass ended on the error of validateConnectionSource
ValidationFailed ==
    loc.err # NoErr /\ loc.err = validateConnectionSource(spec)

\* the iff and the frame of C18: the validation fails exactly for both or
\* neither source; the pass then ends in phase Error having issued no call
\* but the status write
SourceValidated ==
    (PassEnded /\ loc.branch # "short") =>
        /\ ValidationFailed <=> InvalidSource
        /\ InvalidSource =>
              /\ db.phase = "Error"
              /\ (Issued("StatusUpdate") => Succeeded("StatusUpdate"))
                    => status.phase = "Error"
              /\ \A i \in DOMAIN calls : calls[i].op = "StatusUpdate"
              /\ world = <<loc.startUser, loc.startUserPw, loc.startDb, loc.startGranted,
                           loc.startStore>>

\* C18: connection-source exclusivity.  The validation of the admin
\* connection source fails exactly when both sources or neither source is
\* configured; the pass then ends in phase Error before any engine
\* connection and any secret-store call, and no retry is scheduled for it as
\* for a transient failure.
C18_SourceExclusive ==
    /\ SourceValidated
    /\ (PassEnded /\ InvalidSource) => ~Scheduled

\* the privileges spec.privileges asks for: ALL when the list is empty
DesiredPrivileges(s) == IF s.privileges = {} THEN {"ALL"} ELSE s.privileges

\* C20: configurable privileges.  A pass whose grant succeeded, on a user
\* that held no privilege on the database, leaves the user with exactly the
\* privileges of spec.privileges, and with ALL only when that list is empty.
C20_Privileges ==
    (/\ pc = "done"
     /\ Succeeded("GrantAllPrivileges")
     /\ loc.startGranted = {})
    => granted = DesiredPrivileges(spec)

(***************************************************************************)
(* Description drift: the passes of one object whose secret's description  *)
(* is changed from outside and whose spec description is edited.           *)
(***************************************************************************)
\* spec.awsSecretsManager.description a user may edit the object to
DescriptionEdits == {"", "billing credentials"}

\* the user edits spec.awsSecretsManager.description between passes
EditDescription ==
    /\ pc \in {"idle", "done"}
    /\ generation < MaxGen
    /\ generation' = generation + 1
    /\ \E d \in DescriptionEdits \ {spec.description} :
          spec' = [spec EXCEPT !.description = d]
    /\ pc' = "idle"
    /\ loc' = NoLoc
    /\ calls' = <<>>
    /\ UNCHANGED <<status, finalizer, deletionTimestamp, db, result, world, pwCount,
                   failures>>

\* somebody changes the description of the credential secret, which carried
\* the description of the spec, between two passes
ExternalDescribeSecret ==
    /\ pc \in {"idle", "done"}
    /\ TargetSecret.exists
    /\ TargetSecret.description = Description(spec)
    /\ store' = [store EXCEPT ![TargetRegion][TargetName].description = "edited by hand"]
    /\ pc' = "idle"
    /\ loc' = NoLoc
    /\ calls' = <<>>
    /\ UNCHANGED <<object, db, result, userExists, userPw, dbExists, granted, pwCount,
                   failures>>

NextDescription ==
    \/ Reconcile
    \/ GetConnectionString
    \/ NewClient
    \/ UserExists
    \/ DatabaseExists
    \/ SecretExists
    \/ VerifyGetSecret
    \/ VerifySyncTags
    \/ CreateUser
    \/ CreateDatabase
    \/ GrantAllPrivileges
    \/ StoreSecretExists
    \/ StoreUpdate
    \/ StoreCreate
    \/ StoreSyncTags
    \/ Finish
    \/ Abandon
    \/ ExternalDescribeSecret
    \/ EditDescription

\* a new object with an explicit region and the default secret name
SpecDescription == InitTags /\ [][NextDescription]_vars

\* C21: description sync.  A pass that is not short-circuited, finds the
\* credential secret in place and in which no remote call fails leaves the
\* secret with the description of the spec (the default one when the spec
\* names none), so that a description edited in the spec or changed from
\* outside is brought to the existing secret.
C21_DescriptionSync ==
    (/\ pc = "done"
     /\ loc.branch \notin {"finalizer", "short"}
     /\ loc.err = NoErr
     /\ NoFailedCall
     /\ StartTargetSecret.exists
     /\ TargetSecret.exists)
    => TargetSecret.description = Description(spec)
(***************************************************************************)
(* The Secrets Manager client: CreateSecretWithTemplate,                   *)
(* UpdateSecretWithTemplate and DeleteSecret called one after another on   *)
(* one path, each API call of theirs a step that may fail.                 *)
(***************************************************************************)
\* a template text is the sequence of its parts: text, a {{.Field}} action,
\* or an action that is not closed
Text(v) == [kind |-> "text", v |-> v]
Action(field) == [kind |-> "action", v |-> field]
Unclosed == [kind |-> "unclosed", v |-> ""]

\* the "Spring Boot Application" template of the README: the password goes
\* under the key spring.datasource.password
SpringBootTemplate ==
    <<Text("{"), Text("\"spring.datasource.password\":"), Action("DBPassword"), Text("}")>>

\* spec.secretTemplate: none, two templates of a JSON object, one with a
\* syntax error, one that names a field DatabaseSecret does not have, and
\* two whose output is not a JSON document
DefaultTemplate == <<>>
Templates ==
    {DefaultTemplate,
     <<Text("{"), Text("\"DB_PASSWORD\":"), Action("DBPassword"), Text("}")>>,
     SpringBootTemplate,
     <<Text("{"), Text("\"DB_PASSWORD\":"), Unclosed, Text("}")>>,
     <<Text("{"), Text("\"DB_PASSWORD\":"), Action("Password"), Text("}")>>,
     <<Text("DB_PASSWORD="), Action("DBPassword")>>,
     <<Text("{"), Text("\"DB_PASSWORD\":"), Action("DBPassword")>>}

\* template.Parse accepts the text
Parses(tmpl) == \A i \in DOMAIN tmpl : tmpl[i].kind # "unclosed"

\* tmpl.Execute finds every field the actions name
Executes(tmpl, s) ==
    \A i \in DOMAIN tmpl : tmpl[i].kind = "action" => tmpl[i].v \in DOMAIN s

\* the output of tmpl.Execute: every action replaced by the field's value
Rendered(tmpl, s) ==
    [i \in DOMAIN tmpl |->
        IF tmpl[i].kind = "action" THEN [kind |-> "value", v |-> s[tmpl[i].v]]
        ELSE tmpl[i]]

\* json.Unmarshal accepts the output: an object from its opening brace to
\* its closing one
JSONValid(out) ==
    /\ Len(out) >= 2
    /\ out[1].kind = "text" /\ out[1].v = "{"
    /\ out[Len(out)].kind = "text" /\ out[Len(out)].v = "}"

\* the payload a rendered template makes, as GetSecret reads it: the value
\* under DB_PASSWORD and the one under the legacy key password, if the
\* template puts one there
ValueAt(out, key) ==
    LET at == {i \in 1..(Len(out) - 1) :
                  /\ out[i].kind = "text" /\ out[i].v = key
                  /\ out[i + 1].kind = "value"}
    IN  IF at # {} THEN out[(CHOOSE i \in at : TRUE) + 1].v ELSE EmptyPw

PayloadOf(out) ==
    [DB_PASSWORD |-> ValueAt(out, "\"DB_PASSWORD\":"),
     password |-> ValueAt(out, "\"password\":"), urlKey |-> ""]

NoJSON == [DB_PASSWORD |-> EmptyPw, password |-> EmptyPw, urlKey |-> ""]

\* ToJSONWithTemplate without the check that the output is JSON
ToJSONWithTemplateUnchecked(s, tmpl) ==
    IF tmpl = DefaultTemplate THEN [err |-> "", json |-> toJSONDefaultOf(s)]
    ELSE IF ~Parses(tmpl) THEN [err |-> "failed to parse secret template", json |-> NoJSON]
    ELSE IF ~Executes(tmpl, s)
    THEN [err |-> "failed to execute secret template", json |-> NoJSON]
    ELSE [err |-> "", json |-> PayloadOf(Rendered(tmpl, s))]

\* DatabaseSecret.ToJSONWithTemplate
ToJSONWithTemplate(s, tmpl) ==
    IF tmpl = DefaultTemplate THEN [err |-> "", json |-> toJSONDefaultOf(s)]
    ELSE IF ~Parses(tmpl) THEN [err |-> "failed to parse secret template", json |-> NoJSON]
    ELSE IF ~Executes(tmpl, s)
    THEN [err |-> "failed to execute secret template", json |-> NoJSON]
    ELSE IF ~JSONValid(Rendered(tmpl, s))
    THEN [err |-> "template output is not valid JSON", json |-> NoJSON]
    ELSE [err |-> "", json |-> PayloadOf(Rendered(tmpl, s))]

\* the path the client works on
SmRegion == "eu-west-1"
SmName == getSecretNameOrDefault([secretName |-> ""])
SmSecret == store[SmRegion][SmName]

\* the arguments of the calls
ClientPasswords == {PriorPw, [id |-> 1, len |-> 32]}
ClientDescriptions == {DefaultDescription, "billing credentials"}
ClientTags == {DesiredTags([tags |-> NoTags]), DesiredTags([tags |-> [k \in {"team"} |-> "x"]])}

\* the client between two calls; during a call: its arguments, the store as
\* the call found it, and what the call returns
ClientIdle ==
    [op |-> "", tmpl |-> DefaultTemplate, value |-> SecretValue(EmptyPw, Engine),
     description |-> "", tags |-> NoTags, forceDelete |-> FALSE,
     err |-> "", arn |-> "", versionId |-> "", startStore |-> EmptyStore,
     \* the error code client.CreateSecret answered with
     code |-> ""]

\* a call returns err
ClientReturn(l, err) ==
    /\ loc' = [l EXCEPT !.err = err, !.arn = "", !.versionId = ""]
    /\ pc' = "returned"

\* CreateSecretWithTemplate is called: the value is marshalled first
CreateSecretWithTemplate ==
    /\ pc = "idle"
    /\ \E tmpl \in Templates, e \in Engines, pw \in ClientPasswords,
          d \in ClientDescriptions, t \in ClientTags :
          LET l == [ClientIdle EXCEPT !.op = "CreateSecret", !.tmpl = tmpl,
                                      !.value = SecretValue(pw, e), !.description = d,
                                      !.tags = t, !.startStore = store]
              j == ToJSONWithTemplate(l.value, tmpl)
          IN  IF j.err # ""
              THEN ClientReturn(l, "failed to marshal secret value")
              ELSE loc' = l /\ pc' = "apiCreateSecret"
    /\ calls' = <<>>
    /\ UNCHANGED <<object, db, result, world, pwCount, failures>>

\* the error code of client.CreateSecret: the path may hold a secret, which
\* may be scheduled for deletion; ok says whether the service is reached
InvalidRequest == "InvalidRequestException: scheduled for deletion"
CreateSecretCode(sec, ok) ==
    IF ~ok THEN "InternalServiceError"
    ELSE IF sec.scheduled THEN InvalidRequest
    ELSE IF sec.exists THEN ResourceExists
    ELSE ""

\* the check of CreateSecretWithTemplate that finds no error to recover from
isScheduledForDeletionNever(code) == FALSE

\* the error is an InvalidRequestException whose message holds "scheduled
\* for deletion"
isScheduledForDeletion(code) == code = InvalidRequest

\* client.CreateSecret: refused for a path that holds a secret; if the
\* secret is scheduled for deletion the function goes on to restore it
ApiCreateSecret ==
    /\ pc = "apiCreateSecret"
    /\ \E ok \in BOOLEAN :
          LET code == CreateSecretCode(SmSecret, ok)
              done == code = ""
          IN  /\ Call("CreateSecret", done)
              /\ IF done
                 THEN /\ store' = [store EXCEPT ![SmRegion][SmName] =
                                      [exists |-> TRUE, tags |-> loc.tags,
                                       description |-> loc.description,
                                       scheduled |-> FALSE]
                                      @@ ToJSONWithTemplate(loc.value, loc.tmpl).json]
                      /\ loc' = [loc EXCEPT !.arn = "arn", !.versionId = "CreateSecret"]
                      /\ pc' = "returned"
                 ELSE IF isScheduledForDeletion(code)
                 THEN /\ store' = store
                      /\ loc' = [loc EXCEPT !.code = code]
                      /\ pc' = "apiRestoreSecret"
                 ELSE /\ store' = store
                      /\ ClientReturn([loc EXCEPT !.code = code], "failed to create secret")
    /\ UNCHANGED <<object, db, result, userExists, userPw, dbExists, granted, pwCount,
                   failures>>

\* c.RestoreSecret
ApiRestoreSecret ==
    /\ pc = "apiRestoreSecret"
    /\ \E ok \in BOOLEAN :
          /\ Call("RestoreSecret", ok)
          /\ IF ok
             THEN /\ store' = [store EXCEPT ![SmRegion][SmName].scheduled = FALSE]
                  /\ loc' = loc
                  /\ pc' = "apiUpdateRestored"
             ELSE /\ store' = store
                  /\ ClientReturn(loc, "failed to restore secret scheduled for deletion")
    /\ UNCHANGED <<object, db, result, userExists, userPw, dbExists, granted, pwCount,
                   failures>>

\* c.UpdateSecretWithTemplate on the restored secret
ApiUpdateRestored ==
    /\ pc = "apiUpdateRestored"
    /\ \E ok \in BOOLEAN :
          LET j == ToJSONWithTemplate(loc.value, loc.tmpl)
              done == ok /\ j.err = "" /\ SmSecret.exists /\ ~SmSecret.scheduled
          IN  /\ IF j.err = "" THEN Call("UpdateSecret", done) ELSE calls' = calls
              /\ IF done
                 THEN /\ store' = [store EXCEPT ![SmRegion][SmName] =
                                      j.json @@ SmSecret]
                      /\ loc' = [loc EXCEPT !.versionId = "UpdateSecret"]
                      /\ pc' = "apiUpdateMetadata"
                 ELSE /\ store' = store
                      /\ ClientReturn(loc, "failed to update restored secret")
    /\ UNCHANGED <<object, db, result, userExists, userPw, dbExists, granted, pwCount,
                   failures>>

\* c.UpdateSecretMetadata
ApiUpdateMetadata ==
    /\ pc = "apiUpdateMetadata"
    /\ \E ok \in BOOLEAN :
          /\ Call("UpdateSecretMetadata", ok)
          /\ IF ok
             THEN /\ store' = [store EXCEPT ![SmRegion][SmName].description =
                                                loc.description]
                  /\ loc' = loc
                  /\ pc' = "apiTagSecret"
             ELSE /\ store' = store
                  /\ ClientReturn(loc, "failed to update secret description")
    /\ UNCHANGED <<object, db, result, userExists, userPw, dbExists, granted, pwCount,
                   failures>>

\* c.TagSecret: the tags given are set, the others stay
ApiTagSecret ==
    /\ pc = "apiTagSecret"
    /\ \E ok \in BOOLEAN :
          /\ Call("TagSecret", ok)
          /\ IF ok
             THEN /\ store' = [store EXCEPT ![SmRegion][SmName].tags = loc.tags @@ @]
                  /\ loc' = loc
                  /\ pc' = "apiGetSecretARN"
             ELSE /\ store' = store
                  /\ ClientReturn(loc, "failed to update secret tags")
    /\ UNCHANGED <<object, db, result, userExists, userPw, dbExists, granted, pwCount,
                   failures>>

\* c.GetSecretARN, and the return of the restore path
ApiGetSecretARN ==
    /\ pc = "apiGetSecretARN"
    /\ \E ok \in BOOLEAN :
          /\ Call("GetSecretARN", ok)
          /\ IF ok
             THEN /\ loc' = [loc EXCEPT !.arn = "arn"]
                  /\ pc' = "returned"
             ELSE ClientReturn(loc, "failed to get secret ARN after restore")
    /\ UNCHANGED <<object, db, result, world, pwCount, failures>>

\* UpdateSecretWithTemplate is called: the value is marshalled first
UpdateSecretWithTemplate ==
    /\ pc = "idle"
    /\ \E tmpl \in Templates, e \in Engines, pw \in ClientPasswords :
          LET l == [ClientIdle EXCEPT !.op = "UpdateSecret", !.tmpl = tmpl,
                                      !.value = SecretValue(pw, e), !.startStore = store]
              j == ToJSONWithTemplate(l.value, tmpl)
          IN  IF j.err # ""
              THEN ClientReturn(l, "failed to marshal secret value")
              ELSE loc' = l /\ pc' = "apiUpdateSecret"
    /\ calls' = <<>>
    /\ UNCHANGED <<object, db, result, world, pwCount, failures>>

\* client.UpdateSecret: SecretNotFoundError for a path without a secret,
\* SecretMarkedForDeletionError for one scheduled for deletion
ApiUpdateSecret ==
    /\ pc = "apiUpdateSecret"
    /\ \E ok \in BOOLEAN :
          LET done == ok /\ SmSecret.exists /\ ~SmSecret.scheduled
          IN  /\ Call("UpdateSecret", done)
              /\ IF done
                 THEN /\ store' = [store EXCEPT ![SmRegion][SmName] =
                                      ToJSONWithTemplate(loc.value, loc.tmpl).json
                                      @@ SmSecret]
                      /\ loc' = [loc EXCEPT !.versionId = "UpdateSecret"]
                      /\ pc' = "returned"
                 ELSE /\ store' = store
                      /\ ClientReturn(loc, IF ~ok THEN "failed to update secret"
                                           ELSE IF ~SmSecret.exists
                                           THEN "SecretNotFoundError"
                                           ELSE "SecretMarkedForDeletionError")
    /\ UNCHANGED <<object, db, result, userExists, userPw, dbExists, granted, pwCount,
                   failures>>

\* DeleteSecret(secretName, forceDelete) is called and calls
\* client.DeleteSecret: a path without a secret is not an error
ApiDeleteSecret ==
    /\ pc = "idle"
    /\ \E forceDelete \in BOOLEAN, ok \in BOOLEAN :
          /\ calls' = <<[op |-> "DeleteSecret", ok |-> ok /\ SmSecret.exists]>>
          /\ store' = IF ok /\ SmSecret.exists
                      THEN [store EXCEPT ![SmRegion][SmName] =
                                            DeletedSecret(@, forceDelete)]
                      ELSE store
          /\ loc' = [ClientIdle EXCEPT !.op = "DeleteSecret", !.forceDelete = forceDelete,
                                       !.startStore = store,
                                       !.err = IF ok THEN "" ELSE "failed to delete secret"]
    /\ pc' = "returned"
    /\ UNCHANGED <<object, db, result, userExists, userPw, dbExists, granted, pwCount,
                   failures>>

\* the caller takes the result; the client is ready for the next call
ClientReturned ==
    /\ pc = "returned"
    /\ pc' = "idle"
    /\ loc' = ClientIdle
    /\ calls' = <<>>
    /\ UNCHANGED <<object, db, result, world, pwCount, failures>>

\* the path is empty, or holds a secret that may be scheduled for deletion
InitSecrets ==
    /\ generation = 1
    /\ spec \in {s \in Specs : s.region = SmRegion /\ s.secretName = ""}
    /\ status = ZeroStatus
    /\ finalizer = FALSE
    /\ deletionTimestamp = FALSE
    /\ userExists = FALSE
    /\ userPw = EmptyPw
    /\ dbExists = FALSE
    /\ granted = {}
    /\ \E present \in BOOLEAN, scheduled \in BOOLEAN :
          /\ (scheduled => present)
          /\ store = IF present
                     THEN [EmptyStore EXCEPT ![SmRegion][SmName] =
                             [exists |-> TRUE, tags |-> [k \in {"owner"} |-> "y"],
                              description |-> "edited by hand",
                              scheduled |-> scheduled] @@ toJSONDefault(PriorPw)]
                     ELSE EmptyStore
    /\ db = status
    /\ pc = "idle"
    /\ loc = ClientIdle
    /\ calls = <<>>
    /\ result = "none"
    /\ pwCount = 0
    /\ failures = 0

NextSecrets ==
    \/ CreateSecretWithTemplate
    \/ ApiCreateSecret
    \/ ApiRestoreSecret
    \/ ApiUpdateRestored
    \/ ApiUpdateMetadata
    \/ ApiTagSecret
    \/ ApiGetSecretARN
    \/ UpdateSecretWithTemplate
    \/ ApiUpdateSecret
    \/ ApiDeleteSecret
    \/ ClientReturned

SpecSecrets == InitSecrets /\ [][NextSecrets]_vars

\* a call of CreateSecretWithTemplate or UpdateSecretWithTemplate whose
\* template is malformed has returned
MalformedReturned ==
    /\ pc = "returned"
    /\ loc.op \in {"CreateSecret", "UpdateSecret"}
    /\ loc.tmpl # DefaultTemplate
    /\ \/ ~Parses(loc.tmpl)
       \/ ~Executes(loc.tmpl, loc.value)
       \/ ~JSONValid(Rendered(loc.tmpl, loc.value))

\* C22: template fail-closed.  CreateSecretWithTemplate and
\* UpdateSecretWithTemplate called with a template that has a syntax error,
\* names an undefined field or renders something that is not a JSON
\* document return an error without having issued any call to the store,
\* and the store is as the call found it.
C22_TemplateFailClosed ==
    MalformedReturned
    => /\ loc.err # ""
       /\ calls = <<>>
       /\ store = loc.startStore

C22_Witness ==
    /\ MalformedReturned
    /\ loc.op = "UpdateSecret"
    /\ Executes(loc.tmpl, loc.value)
    /\ Parses(loc.tmpl)
    /\ SmSecret.exists
    /\ ~SmSecret.scheduled
(***************************************************************************)
(* The engine clients: CreateUser and DropUser of the PostgreSQL and the   *)
(* MySQL/MariaDB client on one user, and their quoting functions on the    *)
(* strings over an alphabet with the characters SQL gives a meaning to.    *)
(***************************************************************************)
EngineVariants == {"postgres", "mysql"}

\* the client between two calls; after a call: what was called with what,
\* whether the user was there before, and the error returned
EngineIdle ==
    [op |-> "", engine |-> "", password |-> EmptyPw, existed |-> FALSE, err |-> "",
     input |-> <<>>, output |-> <<>>]

\* PostgresClient.CreateUser: UserExists, then ALTER USER or CREATE USER,
\* then COMMENT ON ROLE; failed names the statement that fails, if any
PostgresCreateUser ==
    /\ pc = "idle"
    /\ \E password \in ClientPasswords,
          failed \in {"", "UserExists", "ALTER USER", "CREATE USER", "COMMENT ON ROLE"} :
          /\ (failed = "ALTER USER" => userExists)
          /\ (failed = "CREATE USER" => ~userExists)
          /\ LET written == failed \in {"", "COMMENT ON ROLE"}
             IN  /\ userExists' = (userExists \/ written)
                 /\ userPw' = IF written THEN password ELSE userPw
          /\ loc' = [EngineIdle EXCEPT
                       !.op = "CreateUser", !.engine = "postgres", !.password = password,
                       !.existed = userExists,
                       !.err = CASE failed = "" -> ""
                                 [] failed = "UserExists" -> "failed to check if user exists"
                                 [] failed = "ALTER USER" -> "failed to update user password"
                                 [] failed = "CREATE USER" -> "failed to create user"
                                 [] OTHER -> "failed to add comment to role"]
    /\ pc' = "returned"
    /\ UNCHANGED <<object, db, calls, result, dbExists, granted, store, pwCount,
                   failures>>

\* MySQLClient.CreateUser: CREATE USER IF NOT EXISTS, which leaves a user
\* that is there as it is
MySQLCreateUser ==
    /\ pc = "idle"
    /\ \E password \in ClientPasswords, ok \in BOOLEAN :
          /\ userExists' = (userExists \/ ok)
          /\ userPw' = IF ok /\ ~userExists THEN password ELSE userPw
          /\ loc' = [EngineIdle EXCEPT
                       !.op = "CreateUser", !.engine = "mysql", !.password = password,
                       !.existed = userExists,
                       !.err = IF ok THEN "" ELSE "failed to create user"]
    /\ pc' = "returned"
    /\ UNCHANGED <<object, db, calls, result, dbExists, granted, store, pwCount,
                   failures>>

\* DropUser of either client: DROP USER IF EXISTS
EngineDropUser ==
    /\ pc = "idle"
    /\ \E engine \in EngineVariants, ok \in BOOLEAN :
          /\ userExists' = (userExists /\ ~ok)
          /\ userPw' = IF ok THEN EmptyPw ELSE userPw
          /\ loc' = [EngineIdle EXCEPT
                       !.op = "DropUser", !.engine = engine, !.existed = userExists,
                       !.err = IF ok THEN "" ELSE "failed to drop user"]
    /\ pc' = "returned"
    /\ UNCHANGED <<object, db, calls, result, dbExists, granted, store, pwCount,
                   failures>>

\* the characters: a letter, the three delimiters (the backtick by name),
\* the backslash, the statement separator and the character of the "--"
\* comment
DoubleQuote == "\""
SingleQuote == "'"
Backtick == "BACKTICK"
Backslash == "\\"
Alphabet == {"a", DoubleQuote, SingleQuote, Backtick, Backslash, ";", "-"}
MaxLen == 3
Strings == UNION {[1..n -> Alphabet] : n \in 0..MaxLen}

\* strings.ReplaceAll of one character by a string
RECURSIVE ReplaceAll(_, _, _)
ReplaceAll(str, old, new) ==
    IF str = <<>> THEN <<>>
    ELSE (IF Head(str) = old THEN new ELSE <<Head(str)>>) \o ReplaceAll(Tail(str), old, new)

\* quoteIdentifier and quoteLiteral of the PostgreSQL client
quoteIdentifier(name) ==
    <<DoubleQuote>> \o ReplaceAll(name, DoubleQuote, <<DoubleQuote, DoubleQuote>>)
    \o <<DoubleQuote>>
quoteLiteral(value) ==
    <<SingleQuote>> \o ReplaceAll(value, SingleQuote, <<SingleQuote, SingleQuote>>)
    \o <<SingleQuote>>

\* quoteMySQLIdentifier
quoteMySQLIdentifier(name) ==
    <<Backtick>> \o ReplaceAll(name, Backtick, <<Backtick, Backtick>>) \o <<Backtick>>

\* quoteMySQLLiteral that leaves the backslashes as they are
quoteMySQLLiteralQuotesOnly(value) ==
    <<SingleQuote>> \o ReplaceAll(value, SingleQuote, <<SingleQuote, SingleQuote>>)
    \o <<SingleQuote>>

\* quoteMySQLLiteral: backslashes doubled, then single quotes doubled
quoteMySQLLiteral(value) ==
    LET escaped == ReplaceAll(value, Backslash, <<Backslash, Backslash>>)
    IN  <<SingleQuote>> \o ReplaceAll(escaped, SingleQuote, <<SingleQuote, SingleQuote>>)
        \o <<SingleQuote>>

QuoteFunctions == {"quoteIdentifier", "quoteLiteral", "quoteMySQLIdentifier",
                   "quoteMySQLLiteral"}

\* one of the quoting functions is applied to a string
Quote ==
    /\ pc = "idle"
    /\ \E fn \in QuoteFunctions, input \in Strings :
          loc' = [EngineIdle EXCEPT
                    !.op = fn, !.input = input,
                    !.output = CASE fn = "quoteIdentifier" -> quoteIdentifier(input)
                                 [] fn = "quoteLiteral" -> quoteLiteral(input)
                                 [] fn = "quoteMySQLIdentifier" -> quoteMySQLIdentifier(input)
                                 [] OTHER -> quoteMySQLLiteral(input)]
    /\ pc' = "returned"
    /\ UNCHANGED <<object, db, calls, result, world, pwCount, failures>>

\* the caller takes the result; the client is ready for the next call
EngineReturned ==
    /\ pc = "returned"
    /\ pc' = "idle"
    /\ loc' = EngineIdle
    /\ UNCHANGED <<object, db, calls, result, world, pwCount, failures>>

\* one user, there or not
InitEngine ==
    /\ generation = 1
    /\ spec \in {s \in Specs : s.region = SmRegion /\ s.secretName = ""}
    /\ status = ZeroStatus
    /\ finalizer = FALSE
    /\ deletionTimestamp = FALSE
    /\ userExists \in BOOLEAN
    /\ userPw = IF userExists THEN PriorPw ELSE EmptyPw
    /\ dbExists = FALSE
    /\ granted = {}
    /\ store = EmptyStore
    /\ db = status
    /\ pc = "idle"
    /\ loc = EngineIdle
    /\ calls = <<>>
    /\ result = "none"
    /\ pwCount = 0
    /\ failures = 0

NextEngine ==
    \/ PostgresCreateUser
    \/ MySQLCreateUser
    \/ EngineDropUser
    \/ Quote
    \/ EngineReturned

SpecEngine == InitEngine /\ [][NextEngine]_vars

\* C23: createUser is idempotent in the same way in both engine variants.
\* CreateUser of either client, called for a user that is there and with no
\* statement failing, returns no error and leaves the user with the
\* password it was called with.
C23_CreateUserIdempotent ==
    (loc.op = "CreateUser" /\ loc.existed /\ loc.err = "")
    => (userExists /\ userPw = loc.password)
\* the calls of the restore path of CreateSecretWithTemplate, in order
RestorePath == <<"CreateSecret", "RestoreSecret", "UpdateSecret", "UpdateSecretMetadata",
                 "TagSecret", "GetSecretARN">>

\* CreateSecretWithTemplate has returned from a call on a path whose secret
\* the store reported as scheduled for deletion
ScheduledCreateReturned ==
    /\ pc = "returned"
    /\ loc.op = "CreateSecret"
    /\ loc.code = InvalidRequest

\* C24: createSecret on a path scheduled for deletion.  The call goes on
\* with RestoreSecret, UpdateSecret, UpdateSecretMetadata, TagSecret and
\* GetSecretARN in this order; if none of them fails it returns no error
\* but the ARN and the version of the update, and the secret is no longer
\* scheduled for deletion and holds the new payload, the description and
\* the tags; if one of them fails the call stops there and returns an error.
C24_RestoreOnCreate ==
    ScheduledCreateReturned
    => /\ Len(calls) >= 2
       /\ \A i \in DOMAIN calls : i <= 6 /\ calls[i].op = RestorePath[i]
       /\ \A i \in 2..(Len(calls) - 1) : calls[i].ok
       /\ (loc.err = "") <=> (Len(calls) = 6 /\ calls[6].ok)
       /\ (loc.err # "") => ~calls[Len(calls)].ok
       /\ (loc.err = "")
          => /\ loc.arn = "arn" /\ loc.versionId = "UpdateSecret"
             /\ SmSecret.exists /\ ~SmSecret.scheduled
             /\ SmSecret.DB_PASSWORD = ToJSONWithTemplate(loc.value, loc.tmpl).json.DB_PASSWORD
             /\ SmSecret.urlKey = ToJSONWithTemplate(loc.value, loc.tmpl).json.urlKey
             /\ SmSecret.description = loc.description
             /\ \A k \in DOMAIN loc.tags :
                   k \in DOMAIN SmSecret.tags /\ SmSecret.tags[k] = loc.tags[k]

C24_Witness ==
    /\ ScheduledCreateReturned
    /\ loc.err = ""
    /\ loc.startStore[SmRegion][SmName].scheduled
    /\ loc.startStore[SmRegion][SmName].description # loc.description
    /\ loc.value.DBPassword # PriorPw
\* the keys the connection URL is documented under
PostgresUrlKey == "POSTGRES_URL"
MySQLUrlKey == "MYSQL_URL"

\* C25: the key of the connection URL.  A secret written in the default
\* format carries the connection URL under MYSQL_URL for the engines mysql
\* and mariadb and under POSTGRES_URL for postgres and postgresql.
C25_UrlKeyByFamily ==
    (/\ pc = "returned"
     /\ loc.op \in {"CreateSecret", "UpdateSecret"}
     /\ loc.err = ""
     /\ loc.tmpl = DefaultTemplate)
    => SmSecret.urlKey = IF loc.value.Engine \in {"postgres", "postgresql"}
                         THEN PostgresUrlKey ELSE MySQLUrlKey
(***************************************************************************)
(* The work queue of the controller runtime: what it does with the result  *)
(* of each pass of one object that has its finalizer, given the rate       *)
(* limiter of SetupWithManager.  Delays are in seconds.                    *)
(***************************************************************************)
BaseDelay == 15
MaxDelay == 60
RequeueAfterError == 300
RequeueAfterReady == 600
MaxRetries == 6

\* ItemExponentialFailureRateLimiter.When for an item that failed n times
\* before: the base delay doubled n times, at most the maximum
When(n) == IF BaseDelay * 2^n > MaxDelay THEN MaxDelay ELSE BaseDelay * 2^n

\* the errors reconcileDatabase may return to Reconcile
PassErrors ==
    {Err("failed to create user"), Err(UnrecoverableKind),
     CausedErr("failed to create secret", AccessDenied),
     CausedErr("failed to get existing secret", ResourceNotFound)}

\* the queue before the first pass has ended: the delays handed out so far
QueueIdle == [delays |-> <<>>]

\* a pass returned an error: AddRateLimited, the item has failed once more
AddRateLimited ==
    /\ Len(loc.delays) < MaxRetries
    /\ \E e \in PassErrors :
          /\ ErrorResult(e) = "error"
          /\ result' = ErrorResult(e)
    /\ failures' = failures + 1
    /\ loc' = [loc EXCEPT !.delays = Append(@, [result |-> "error",
                                               delay |-> When(failures)])]
    /\ pc' = "done"
    /\ UNCHANGED <<object, db, calls, world, pwCount>>

\* a pass returned RequeueAfter and no error, after a failure that needs a
\* person or after a success: Forget, then AddAfter
ForgetAddAfter ==
    /\ Len(loc.delays) < MaxRetries
    /\ \E r \in {ErrorResult(e) : e \in PassErrors} \cup {"requeueAfter10m"} :
          /\ r # "error"
          /\ result' = r
          /\ loc' = [loc EXCEPT !.delays =
                       Append(@, [result |-> r,
                                  delay |-> IF r = "requeueAfter5m"
                                            THEN RequeueAfterError
                                            ELSE RequeueAfterReady])]
    /\ failures' = 0
    /\ pc' = "done"
    /\ UNCHANGED <<object, db, calls, world, pwCount>>

\* an object that has its finalizer, before its next pass ends
InitBackoff ==
    /\ generation = 1
    /\ spec \in {s \in Specs : s.region = SmRegion /\ s.secretName = ""}
    /\ status = ZeroStatus
    /\ finalizer = TRUE
    /\ deletionTimestamp = FALSE
    /\ userExists = FALSE
    /\ userPw = EmptyPw
    /\ dbExists = FALSE
    /\ granted = {}
    /\ store = EmptyStore
    /\ db = status
    /\ pc = "idle"
    /\ loc = QueueIdle
    /\ calls = <<>>
    /\ result = "none"
    /\ pwCount = 0
    /\ failures = 0

NextBackoff ==
    \/ AddRateLimited
    \/ ForgetAddAfter

SpecBackoff == InitBackoff /\ [][NextBackoff]_vars

\* the number of passes up to the i-th that failed with an error handed to
\* the rate limiter, one after another
Consecutive(i) ==
    LET others == {j \in 1..i : loc.delays[j].result # "error"}
        last == IF others = {} THEN 0 ELSE CHOOSE j \in others : \A k \in others : k <= j
    IN  i - last

\* C26: generic-failure backoff.  The n-th of consecutive passes that fail
\* with an error that is neither permission-denied nor resource-not-found
\* is retried after 5 s doubled n - 1 times, and after 60 s from the fifth
\* on; a pass that does not fail this way starts the count again.
C26_Backoff ==
    \A i \in DOMAIN loc.delays :
        loc.delays[i].result = "error"
        => loc.delays[i].delay = IF Consecutive(i) >= 5 THEN 60
                                 ELSE 5 * 2^(Consecutive(i) - 1)
\* the path the DeleteSecret call of reconcileDelete addresses
DeletedPath == store[ClientRegion(getRegion(spec))][db.actualSecretName]

\* the DeleteSecret call of a non-retaining deletion has succeeded
SecretDeleted ==
    /\ loc.branch = "delete"
    /\ spec.retainOnDelete = "false"
    /\ pc \in {"removeFinalizer", "done"}
    /\ Succeeded("DeleteSecret")

Delimiter(fn) ==
    CASE fn = "quoteIdentifier" -> DoubleQuote
      [] fn = "quoteMySQLIdentifier" -> Backtick
      [] OTHER -> SingleQuote
BackslashEscapes(fn) == fn = "quoteMySQLLiteral"

\* every c in str is one of a pair of two c in a row
RECURSIVE Paired(_, _)
Paired(str, c) ==
    IF str = <<>> THEN TRUE
    ELSE IF Head(str) # c THEN Paired(Tail(str), c)
    ELSE Len(str) >= 2 /\ str[2] = c /\ Paired(SubSeq(str, 3, Len(str)), c)

\* the engine reads the token that opens at out[1]: from position i on, with
\* the text read so far; end is the position of the closing delimiter, 0 if
\* the text ends before the token does
RECURSIVE ReadToken(_, _, _, _, _)
ReadToken(out, i, delim, escapes, text) ==
    IF i > Len(out) THEN [end |-> 0, text |-> text]
    ELSE IF out[i] = delim
    THEN IF i < Len(out) /\ out[i + 1] = delim
         THEN ReadToken(out, i + 2, delim, escapes, Append(text, delim))
         ELSE [end |-> i, text |-> text]
    ELSE IF escapes /\ out[i] = Backslash
    THEN IF i < Len(out)
         THEN ReadToken(out, i + 2, delim, escapes, Append(text, out[i + 1]))
         ELSE [end |-> 0, text |-> text]
    ELSE ReadToken(out, i + 1, delim, escapes, Append(text, out[i]))

\* C28: quoting is injection-safe.  For every string over the alphabet, each
\* of the four quoting functions returns a string that starts and ends with
\* its delimiter, in which every delimiter in between is one of a doubled
\* pair and, for MySQL literals, every backslash is doubled too; the engine
\* reads it as one token that ends with the last character and whose text
\* is the input.
C28_QuotingSafe ==
    loc.op \in QuoteFunctions
    => LET out == loc.output
           d == Delimiter(loc.op)
           inner == SubSeq(out, 2, Len(out) - 1)
           token == ReadToken(out, 2, d, BackslashEscapes(loc.op), <<>>)
       IN  /\ Len(out) >= 2
           /\ out[1] = d /\ out[Len(out)] = d
           /\ Paired(inner, d)
           /\ (loc.op = "quoteMySQLLiteral" => Paired(inner, Backslash))
           /\ token.end = Len(out)
           /\ token.text = loc.input

\* a MySQL literal that ends in a backslash and holds a quote and a
\* statement separator
C28_Witness ==
    /\ loc.op = "quoteMySQLLiteral"
    /\ loc.input = <<SingleQuote, ";", Backslash>>
    /\ loc.output = <<SingleQuote, SingleQuote, SingleQuote, ";", Backslash, Backslash,
                      SingleQuote>>
\* C29: the old-region delete spares the secret just written.  The delete
\* of the secret in the persisted region is issued only when that region
\* differs from the resolved region of the client the pass wrote with, also
\* when the spec names no region and the default is resolved; so a pass
\* that is not short-circuited and in which no remote call fails leaves the
\* secret in place in the resolved target region.
C29_KeepsWritten ==
    (/\ pc = "done"
     /\ loc.branch \notin {"finalizer", "short", "delete", "gone"}
     /\ loc.err = NoErr
     /\ NoFailedCall)
    => /\ Issued("DeleteSecretOld") => loc.startStatus.secretRegion # TargetRegion
       /\ TargetSecret.exists
\* C30: Ready means applied.  A pass that leaves the status Ready for the
\* object's generation either made its privilege grant and its secret write
\* itself, or was short-circuited on a status that some pass left Ready:
\* never on the Error status of a failed pass, whose work the next pass has
\* to attempt again although the three created flags are true.
C30_ReadyMeansApplied ==
    (/\ pc = "done"
     /\ loc.branch \notin {"finalizer", "delete", "gone"}
     /\ loc.err = NoErr
     /\ calls # <<>> /\ calls[Len(calls)].ok
     /\ status.phase = "Ready"
     /\ status.observedGeneration = generation)
    => IF loc.branch = "short"
       THEN loc.startStatus.phase # "Error"
       ELSE /\ Succeeded("GrantAllPrivileges")
            /\ Succeeded("UpdateSecret") \/ Succeeded("CreateSecret")

\* C31: secret and user agree.  After a pass that ran reconcileDatabase and
\* ended Ready, whatever it found of user, database and secret, the password
\* of the credential secret is the password of the database user: the pass
\* wrote to the secret no password that it did not set on the user or read
\* back from the store for the user it found.
C31_SecretMatchesUser ==
    (/\ pc = "done"
     /\ loc.branch \notin {"finalizer", "short", "delete", "gone"}
     /\ loc.err = NoErr
     /\ NoFailedCall
     /\ TargetSecret.exists)
    => /\ userExists
       /\ GetSecretPassword(TargetSecret) = userPw
       /\ loc.generated => Succeeded("CreateUser")

\* a call of CreateSecretWithTemplate or UpdateSecretWithTemplate has written
\* its payload and returned without an error
WriteReturned ==
    /\ pc = "returned"
    /\ loc.op \in {"CreateSecret", "UpdateSecret"}
    /\ loc.err = ""
    /\ \E i \in DOMAIN calls : calls[i].op \in WriteOps /\ calls[i].ok

\* C32: write/read round trip of the password.  After CreateSecretWithTemplate
\* or UpdateSecretWithTemplate has written a payload, in the default format
\* or through a template it accepted, GetSecret on the secret yields the
\* password that was written, which is not empty: a later pass that reads
\* the secret can extract the password.
C32_RoundTrip ==
    WriteReturned
    => /\ SmSecret.exists
       /\ GetSecretPassword(SmSecret) = loc.value.DBPassword
       /\ GetSecretPassword(SmSecret) # EmptyPw

(***************************************************************************)
(* Deletion of an object whose user, database or secret were there before  *)
(* the object: the passes of the deletion model, started from an engine    *)
(* and a store that may hold them already.                                 *)
(***************************************************************************)
InitCleanup ==
    /\ generation = 1
    /\ spec \in DeleteSpecs
    /\ status = ZeroStatus
    /\ finalizer = FALSE
    /\ deletionTimestamp = FALSE
    /\ userExists \in BOOLEAN
    /\ userPw = IF userExists THEN PriorPw ELSE EmptyPw
    /\ dbExists \in BOOLEAN
    /\ granted = {}
    /\ \E present \in BOOLEAN :
          store = IF present
                  THEN [EmptyStore EXCEPT
                          ![ClientRegion(getRegion(spec))][getSecretNameOrDefault(spec)] =
                              [exists |-> TRUE, tags |-> NoTags,
                               description |-> DefaultDescription, scheduled |-> FALSE]
                              @@ toJSONDefault(PriorPw)]
                  ELSE EmptyStore
    /\ db = status
    /\ pc = "idle"
    /\ loc = NoLoc
    /\ calls = <<>>
    /\ result = "none"
    /\ pwCount = 0
    /\ failures = 0

SpecCleanup == InitCleanup /\ [][NextDelete]_vars

CreatedFlags(st) == <<st.userCreated, st.databaseCreated, st.secretCreated>>

\* C33: a non-retaining deletion touches only what the status flags.
\* DropDatabase is issued only if status.databaseCreated, DropUser only if
\* status.userCreated, DeleteSecret only if status.secretCreated; a pass
\* that ends in the unrecoverable-password error leaves the three flags as
\* it found them, in memory and persisted; so the deletion of an object
\* whose flags are all false, as they are when every pass ended in that
\* error, leaves user, database and secrets as they were.
C33_OnlyFlagged ==
    /\ loc.branch = "delete"
       => /\ Issued("DropDatabase") => loc.startStatus.databaseCreated
          /\ Issued("DropUser") => loc.startStatus.userCreated
          /\ Issued("DeleteSecret") => loc.startStatus.secretCreated
          /\ CreatedFlags(loc.startStatus) = <<FALSE, FALSE, FALSE>>
             => /\ <<userExists, userPw, dbExists>>
                     = <<loc.startUser, loc.startUserPw, loc.startDb>>
                /\ store = loc.startStore
    /\ (pc \in {"finish", "done"} /\ loc.branch = "unrecoverable")
       => /\ CreatedFlags(db) = CreatedFlags(loc.startStatus)
          /\ CreatedFlags(status) = CreatedFlags(loc.startStatus)

\* the non-retaining deletion of an object whose last pass ended in the
\* unrecoverable-password error on a user and a database that were there
\* before it: the engine is reached and both are still there
C33_Witness ==
    /\ pc = "done"
    /\ loc.branch = "delete"
    /\ spec.retainOnDelete = "false"
    /\ loc.startStatus.phase = "Error"
    /\ loc.startStatus.message.kind = UnrecoverableKind
    /\ CreatedFlags(loc.startStatus) = <<FALSE, FALSE, FALSE>>
    /\ Succeeded("NewClient")
    /\ ~Issued("DropDatabase") /\ ~Issued("DropUser") /\ ~Issued("DeleteSecret")
    /\ userExists /\ userPw = PriorPw /\ dbExists
    /\ ~finalizer

\* C34: finalizer before resources.  A pass issues CreateUser,
\* CreateDatabase, a grant or a secret write only on an object that carries
\* the finalizer; the pass that adds the finalizer issues the Update of the
\* object and no other call, leaves engine, store and status as they were,
\* and returns an immediate requeue, or the error of the Update when it
\* failed, in which case the object is still without the finalizer.
C34_FinalizerFirst ==
    /\ \A op \in {"UserExists", "CreateUser", "CreateDatabase", "GrantAllPrivileges",
                   "SecretExists", "GetSecret", "CreateSecret", "UpdateSecret",
                   "TagSecret"} :
          Issued(op) => finalizer
    /\ loc.branch = "finalizer"
       => /\ pc = "done"
          /\ Len(calls) = 1 /\ calls[1].op = "Update"
          /\ finalizer = calls[1].ok
          /\ result = IF calls[1].ok THEN "requeue" ELSE "error"
          /\ <<userExists, userPw, dbExists, granted, store>>
               = <<loc.startUser, loc.startUserPw, loc.startDb, loc.startGranted,
                   loc.startStore>>
          /\ status = loc.startStatus
          /\ ~loc.generated

\* the finalizer pass of a new object over an engine that holds nothing
C34_Witness ==
    /\ pc = "done"
    /\ loc.branch = "finalizer"
    /\ calls = <<[op |-> "Update", ok |-> TRUE]>>
    /\ finalizer
    /\ result = "requeue"
    /\ ~userExists /\ ~dbExists /\ ~TargetSecret.exists

(***************************************************************************)
(* Update failures: the passes of a new object whose secret is changed in  *)
(* Secrets Manager between the existence check of storeCredentialsInAWS    *)
(* and its update.                                                         *)
(***************************************************************************)
\* somebody deletes the credential secret with a recovery window after the
\* pass has found it and before the pass updates it
ExternalScheduleDeletion ==
    /\ pc = "storeUpdate"
    /\ failures < MaxFail
    /\ failures' = failures + 1
    /\ store[loc.region][loc.secretName].exists
    /\ ~store[loc.region][loc.secretName].scheduled
    /\ store' = [store EXCEPT ![loc.region][loc.secretName] = DeletedSecret(@, FALSE)]
    /\ UNCHANGED <<object, db, pc, loc, calls, result, userExists, userPw, dbExists,
                   granted, pwCount>>

NextUpdate ==
    \/ Reconcile
    \/ GetConnectionString
    \/ NewClient
    \/ UserExists
    \/ DatabaseExists
    \/ SecretExists
    \/ VerifyGetSecret
    \/ VerifySyncTags
    \/ CreateUser
    \/ CreateDatabase
    \/ GrantAllPrivileges
    \/ StoreSecretExists
    \/ StoreUpdate
    \/ StoreCreate
    \/ StoreSyncTags
    \/ Finish
    \/ Abandon
    \/ ExternalScheduleDeletion

SpecUpdate == InitTags /\ [][NextUpdate]_vars

\* the position of the UpdateSecret of the pass, 0 when there is none
UpdateAt ==
    IF Issued("UpdateSecret")
    THEN CHOOSE i \in DOMAIN calls : calls[i].op = "UpdateSecret"
    ELSE 0

\* the pass found the secret in its existence check and its update failed
UpdateFailed ==
    /\ pc \in {"storeCreate", "storeSyncTags", "finish", "done"}
    /\ loc.exists
    /\ UpdateAt > 0 /\ ~calls[UpdateAt].ok

\* C35: typed update failures choose the recovery.  When the existence
\* check found the secret and UpdateSecret then reports that it is not there
\* or is marked for deletion, the pass goes on to CreateSecret, which, when
\* it succeeds, leaves the secret with the password the pass resolved; when
\* UpdateSecret fails with another error the pass ends with that error and
\* issues no CreateSecret.
C35_TypedRecovery ==
    /\ Count("UpdateSecret") <= 1
    /\ UpdateFailed
       => IF loc.createSecret
          THEN /\ pc = "storeCreate" => loc.err = NoErr
               /\ pc # "storeCreate" => /\ Count("CreateSecret") = 1
                                        /\ calls[UpdateAt + 1].op = "CreateSecret"
               /\ Succeeded("CreateSecret")
                  => /\ TargetSecret.exists /\ ~TargetSecret.scheduled
                     /\ GetSecretPassword(TargetSecret) = loc.password
                     /\ loc.password # EmptyPw
          ELSE /\ pc \in {"finish", "done"}
               /\ loc.err.kind = "failed to update secret"
               /\ loc.err.cause \notin {ResourceNotFound, MarkedForDeletion}
               /\ ~Issued("CreateSecret")
               /\ UpdateAt = Len(calls) \/ calls[UpdateAt + 1].op = "StatusUpdate"
               /\ TargetSecret.exists
               /\ GetSecretPassword(TargetSecret) = GetSecretPassword(StartTargetSecret)
    /\ (Issued("CreateSecret") /\ loc.exists) => UpdateFailed /\ loc.createSecret

\* the secret was marked for deletion after the existence check; the pass
\* restored it with the password it had read from it and ended Ready
C35_Witness ==
    /\ pc = "done"
    /\ UpdateFailed
    /\ loc.startStore[loc.region][loc.secretName].exists
    /\ ~loc.startStore[loc.region][loc.secretName].scheduled
    /\ loc.branch = "verify"
    /\ Succeeded("CreateSecret")
    /\ GetSecretPassword(TargetSecret) = loc.readPw
    /\ ~TargetSecret.scheduled
    /\ TargetSecret.tags = DesiredTags(spec)
    /\ status.phase = "Ready"

\* database.NewClient of a reconcile pass returned an error
ClientFailed ==
    /\ pc \in {"finish", "done"}
    /\ loc.branch \notin {"finalizer", "short", "delete", "gone"}
    /\ Issued("NewClient") /\ ~Succeeded("NewClient")

\* C36: a failed client construction is fatal for the reconcile pass.  When
\* database.NewClient fails (unsupported engine, unparsable connection
\* string, failed ping) reconcileDatabase returns the error at once: the
\* pass issues no existence check, no DDL and no call on the credential
\* secret, holds no engine connection, leaves engine and store as they
\* were and the three created flags as the status had them, and ends in
\* phase Error.
C36_ClientFatal ==
    ClientFailed
    => /\ loc.err = Err("database client")
       /\ \A i \in DOMAIN calls :
             calls[i].op \in {"GetConnectionString", "NewClient", "StatusUpdate"}
       /\ loc.open = {}
       /\ <<userExists, userPw, dbExists, granted, store>>
            = <<loc.startUser, loc.startUserPw, loc.startDb, loc.startGranted,
                loc.startStore>>
       /\ CreatedFlags(db) = CreatedFlags(loc.startStatus)
       /\ CreatedFlags(status) = CreatedFlags(loc.startStatus)
       /\ pc = "done" => /\ db.phase = "Error"
                          /\ result = "error"

\* the client of a pass on an engine that holds user and database cannot
\* be constructed; the pass has ended in phase Error
C36_Witness ==
    /\ ClientFailed
    /\ pc = "done"
    /\ calls = <<[op |-> "GetConnectionString", ok |-> TRUE],
                 [op |-> "NewClient", ok |-> FALSE],
                 [op |-> "StatusUpdate", ok |-> TRUE]>>
    /\ status.phase = "Error"
    /\ status.message = Err("database client")
    /\ userExists /\ dbExists
    /\ loc.open = {}

\* C37: connection lifetime.  A pass holds at most the admin connection,
\* opened by its one successful NewClient; the connection to the target
\* database that the PostgreSQL grant opens is closed when the grant
\* returns; and once reconcileDatabase or reconcileDelete has returned, on
\* success and on every error path, no engine connection is open.
C37_ConnectionsClosed ==
    /\ loc.open \subseteq {"admin"}
    /\ loc.open # {} => Succeeded("NewClient")
    /\ Cardinality({i \in DOMAIN calls : calls[i].op = "NewClient"}) <= 1
    /\ pc \in {"idle", "finish", "done"} => loc.open = {}
    /\ pc \in {"userExists", "databaseExists", "secretExists", "verifyGetSecret",
                "verifySyncTags", "createUser",
                "createDatabase", "grant", "storeSecretExists", "storeUpdate",
                "storeCreate", "storeSyncTags", "dropDatabase", "dropUser"}
       => loc.open = {"admin"}

\* a reconcile pass that created user and database and failed in the grant
\* has returned with no connection open
C37_Witness ==
    /\ pc = "done"
    /\ loc.open = {}
    /\ loc.branch = "create"
    /\ Succeeded("NewClient")
    /\ Succeeded("CreateUser") /\ Succeeded("CreateDatabase")
    /\ Issued("GrantAllPrivileges") /\ ~Succeeded("GrantAllPrivileges")
    /\ status.phase = "Error"

(***************************************************************************)
(* Unreadable payloads: the passes of an object whose secret is rewritten  *)
(* from outside with a payload that holds the password under neither key,  *)
(* and whose region is edited.                                             *)
(***************************************************************************)
\* somebody puts a payload without DB_PASSWORD and without password into a
\* secret between two passes
ExternalPutSecretValue ==
    /\ pc \in {"idle", "done"}
    /\ \E r \in Regions, n \in SecretNames :
          /\ store[r][n].exists
          /\ GetSecretPassword(store[r][n]) # EmptyPw
          /\ store' = [store EXCEPT ![r][n].DB_PASSWORD = EmptyPw,
                                    ![r][n].password = EmptyPw]
    /\ pc' = "idle"
    /\ loc' = NoLoc
    /\ calls' = <<>>
    /\ UNCHANGED <<object, db, result, userExists, userPw, dbExists, granted, pwCount,
                   failures>>

\* an object, new or of an earlier release, in us-east-1 under the default name
InitUnreadable ==
    /\ Init
    /\ spec.region = "us-east-1"
    /\ spec.secretName = ""

NextUnreadable ==
    \/ Reconcile
    \/ GetConnectionString
    \/ NewClient
    \/ MigrationGetSecret
    \/ UserExists
    \/ DatabaseExists
    \/ SecretExists
    \/ VerifyGetSecret
    \/ VerifySyncTags
    \/ OldRegionSecretExists
    \/ OldRegionGetSecret
    \/ CreateUser
    \/ CreateDatabase
    \/ GrantAllPrivileges
    \/ StoreSecretExists
    \/ StoreCheckOldRegion
    \/ StoreUpdate
    \/ StoreCreate
    \/ StoreSyncTags
    \/ StoreDeleteOld
    \/ Finish
    \/ Abandon
    \/ EditRegion
    \/ ExternalPutSecretValue

SpecUnreadable == InitUnreadable /\ [][NextUnreadable]_vars

\* the pass fetched a secret whose payload yields no password
ReadEmpty ==
    /\ pc \notin {"idle"}
    /\ Succeeded("GetSecret") \/ Succeeded("GetSecretOld")
    /\ loc.password = EmptyPw

ExtractErrors ==
    {"could not extract password from existing secret",
     "could not extract password from existing secret for migration",
     "could not extract password from secret in old region"}

\* C38: no empty password is written.  A pass that reads the password back
\* from the store (verify-and-sync, format migration, region migration) and
\* gets a payload with an empty password under both key sets returns the
\* extraction error at once: it issues no grant and no secret write and
\* leaves engine and store as they were.  Every secret write of a pass
\* carries a password that is not empty.
C38_NoEmptyPassword ==
    /\ ReadEmpty
       => /\ pc \in {"finish", "done"}
          /\ loc.err.kind \in ExtractErrors
          /\ \A op \in {"GrantAllPrivileges", "UpdateSecret", "CreateSecret",
                         "TagSecret", "UntagSecret", "DeleteSecretOld"} : ~Issued(op)
          /\ <<userExists, userPw, dbExists, granted, store>>
               = <<loc.startUser, loc.startUserPw, loc.startDb, loc.startGranted,
                   loc.startStore>>
    /\ (pc \in {"grant", "storeSecretExists", "storeCheckOldRegion", "storeUpdate",
                 "storeCreate", "storeSyncTags", "storeDeleteOld"})
       => loc.password # EmptyPw
    /\ pc = "storeSyncTags"
       => /\ store[loc.region][loc.secretName].exists
          /\ GetSecretPassword(store[loc.region][loc.secretName]) = loc.password

\* the region was edited and the secret of the old region holds no password
\* under either key: the region migration has ended with the extraction error
C38_Witness ==
    /\ pc = "done"
    /\ ReadEmpty
    /\ loc.branch = "regionMigrate"
    /\ Succeeded("GetSecretOld")
    /\ loc.err.kind = "could not extract password from secret in old region"
    /\ status.phase = "Error"
    /\ ~TargetSecret.exists

\* the position of the first call of an operation in the log of the pass,
\* 0 when the pass has not issued it
FirstCall(op) ==
    IF Issued(op) THEN CHOOSE i \in DOMAIN calls :
                          /\ calls[i].op = op
                          /\ \A j \in 1..(i - 1) : calls[j].op # op
    ELSE 0

CallCount(op) == Cardinality({i \in DOMAIN calls : calls[i].op = op})

\* C39: the order of the clean-up in a deletion pass with
\* retainOnDelete=false.  DropDatabase comes before DropUser in the log of
\* the pass, each at most once; when the user drop is reached the database
\* drop has been attempted or skipped because status.databaseCreated is
\* off; when the deletion of the secret is reached (the secrets client,
\* DeleteSecret, the removal of the finalizer) each engine drop has been
\* attempted, or skipped because its flag is off or no engine client could
\* be had, and no engine drop follows DeleteSecret.
C39_CleanupOrder ==
    /\ \A op \in {"DropDatabase", "DropUser", "DeleteSecret"} : CallCount(op) <= 1
    /\ (Issued("DropDatabase") /\ Issued("DropUser"))
          => FirstCall("DropDatabase") < FirstCall("DropUser")
    /\ Issued("DropUser") => (db.databaseCreated <=> Issued("DropDatabase"))
    /\ pc = "dropUser" => (db.databaseCreated <=> Issued("DropDatabase"))
    /\ (Issued("NewAWSSecretsManagerClient") \/ Issued("DeleteSecret")
           \/ pc \in {"delSecretsClient", "deleteSecret", "removeFinalizer"})
          => /\ Issued("DropDatabase") <=> (Succeeded("NewClient") /\ db.databaseCreated)
             /\ Issued("DropUser") <=> (Succeeded("NewClient") /\ db.userCreated)
    /\ Issued("DeleteSecret")
          => \A op \in {"DropDatabase", "DropUser"} :
                Issued(op) => FirstCall(op) < FirstCall("DeleteSecret")

\* a deletion pass with all three flags on that has attempted the three
\* removals, the database drop having failed
C39_Witness ==
    /\ pc = "removeFinalizer"
    /\ spec.retainOnDelete = "false"
    /\ db.databaseCreated /\ db.userCreated /\ db.secretCreated
    /\ Issued("DropDatabase") /\ ~Succeeded("DropDatabase")
    /\ Succeeded("DropUser")
    /\ Succeeded("DeleteSecret")
    /\ FirstCall("DropDatabase") < FirstCall("DropUser")
    /\ FirstCall("DropUser") < FirstCall("DeleteSecret")
====
